---------------------------- MODULE Spec2Model ----------------------------
(***************************************************************************)
(* A model of the utility core of jira_dashboard (src/helper_func.py):    *)
(* the JSON extractor extract_json_from_result and the timestamp          *)
(* formatter format_timestamp.                                            *)
(*                                                                         *)
(* Python strings are sequences of one-character strings.  A parsed JSON  *)
(* value (what json.loads returns) is a sequence of tokens: the document  *)
(* with its insignificant whitespace dropped and its string escapes       *)
(* decoded.  Python's None is the one-token sequence NoneVal.             *)
(***************************************************************************)
EXTENDS Integers, Sequences, FiniteSets, TLC

VARIABLES
    \* ---- extract_json_from_result
    result_text,   \* the argument: [kind, val, raw, text]
    pc,            \* position in extract_json_from_result
    result_str,    \* local result_str
    idx,           \* loop index i of the brace scan (1-based: next char to read)
    brace_count,   \* local brace_count
    in_string,     \* local in_string
    escape_next,   \* local escape_next
    end_idx,       \* local end_idx (-1: not found)
    ret,           \* the value returned (a token sequence), once pc = "done"
    loads_calls,   \* number of json.loads calls made by the current call
    rounds,        \* number of times the result was passed back in
    raw_ret,       \* what the call on an object returned, kept while its
                   \* .raw string is extracted from in its turn
    calc_ret,      \* what BugCalculator.extract_json_from_result returned
                   \* for the same argument
    blocker_ret,   \* what BlockerBugCalculator.extract_json_from_result
                   \* returned for the same argument
    \* ---- format_timestamp
    timestamp,     \* the argument: [type, s, n, milli, huge]
    tz,            \* the local UTC offset in seconds
    ts_pc,         \* position of the format_timestamp scenario
    formatted,     \* format_timestamp(timestamp)
    reformatted,   \* format_timestamp(formatted)
    token_only,    \* format_timestamp(first token of timestamp)
    from_decimal,  \* format_timestamp(str(timestamp))
    \* ---- is_timestamp_within_days
    days,          \* the argument days
    now,           \* the instant datetime.now() returns, in seconds since the epoch
    instant,       \* the instant the argument timestamp denotes
    within,        \* the outcome: "True", "False", or "raised"
    within_epoch,  \* the outcome for the same instant written as an epoch string
    wd_pc,         \* position of the is_timestamp_within_days scenario
    \* ---- calculate_item_metrics (with days, now and tz above)
    all_items,     \* the argument all_items: a sequence of mappings
    item_type,     \* the argument item_type
    item_idx,      \* number of items the loop has processed
    metrics,       \* local metrics
    recent_activity_items,    \* local recent_activity_items
    recently_created_items,   \* local recently_created_items
    recently_resolved_items,  \* local recently_resolved_items
    cm_pc,         \* position in calculate_item_metrics
    \* ---- BugCalculator.calculate_bug_metrics (with now and tz above)
    issues,        \* the argument issues: a sequence of mappings
    priority_ids,  \* self.priority_ids
    bug_idx,       \* number of issues the loop has processed
    bug_metrics,   \* local metrics: total, total_resolved, resolved_last_month
                   \* stand for total_<name>_bugs, total_<name>_bugs_resolved
                   \* and <name>_bugs_resolved_last_month
    bugs_fixed,    \* local bugs_fixed
    bug_pc,        \* position in calculate_bug_metrics
    \* ---- BlockerBugCalculator.calculate_blocker_bug_fixes, on issues
    fix_idx,       \* number of issues the loop has processed
    stats,         \* local stats
    blocker_bugs_fixed,  \* local blocker_bugs_fixed
    fix_pc         \* position in calculate_blocker_bug_fixes

json_vars == <<result_text, pc, result_str, idx, brace_count, in_string,
               escape_next, end_idx, ret, loads_calls, rounds, raw_ret,
               calc_ret, blocker_ret>>
ts_vars == <<timestamp, tz, ts_pc, formatted, reformatted,
             token_only, from_decimal>>
wd_vars == <<days, now, instant, within, within_epoch, wd_pc>>
cm_vars == <<all_items, item_type, item_idx, metrics, recent_activity_items,
             recently_created_items, recently_resolved_items, cm_pc>>
bug_vars == <<issues, priority_ids, bug_idx, bug_metrics, bugs_fixed, bug_pc>>
fix_vars == <<fix_idx, stats, blocker_bugs_fixed, fix_pc>>
vars == <<json_vars, ts_vars, wd_vars, cm_vars, bug_vars, fix_vars>>
\* what the steps of one function leave alone: the state of the others
JsonFrame == <<ts_vars, wd_vars, cm_vars, bug_vars, fix_vars, raw_ret, calc_ret,
               blocker_ret>>
TsFrame == <<json_vars, wd_vars, cm_vars, bug_vars, fix_vars>>

(***************************************************************************)
(* Bounds of the model.                                                    *)
(***************************************************************************)
\* longest string enumerated exhaustively over ScanAlphabet
MaxLen == 5
\* how many times a result is passed back to extract_json_from_result
MaxRounds == 1
\* longest string enumerated exhaustively over TsAlphabet
MaxTsLen == 3

(***************************************************************************)
(* Python str helpers.                                                     *)
(***************************************************************************)
\* characters str.strip() and str.split() treat as whitespace (those of the model)
PyWhitespace == {" ", "\n", "\t", "\r", "\f"}

RECURSIVE LStripFrom(_, _)
LStripFrom(s, p) ==
    IF p <= Len(s) /\ s[p] \in PyWhitespace THEN LStripFrom(s, p + 1) ELSE p

RECURSIVE RStripTo(_, _)
RStripTo(s, q) ==
    IF q >= 1 /\ s[q] \in PyWhitespace THEN RStripTo(s, q - 1) ELSE q

\* str.strip()
PyStrip(s) ==
    LET p == LStripFrom(s, 1)
        q == RStripTo(s, Len(s))
    IN  IF p > q THEN <<>> ELSE SubSeq(s, p, q)

\* str.startswith(prefix)
StartsWith(s, prefix) ==
    /\ Len(s) >= Len(prefix)
    /\ SubSeq(s, 1, Len(prefix)) = prefix

\* c in s
Contains(s, c) == \E k \in 1..Len(s) : s[k] = c

RECURSIVE SplitOn(_, _, _, _)
SplitOn(s, sep, p, cur) ==
    IF p > Len(s) THEN <<cur>>
    ELSE IF s[p] = sep THEN <<cur>> \o SplitOn(s, sep, p + 1, <<>>)
    ELSE SplitOn(s, sep, p + 1, Append(cur, s[p]))

\* str.split('\n')
SplitLines(s) == SplitOn(s, "\n", 1, <<>>)

RECURSIVE JoinLines(_, _, _)
\* '\n'.join(lines[a-1:b]) for 1-based a..b
JoinLines(lines, a, b) ==
    IF a > b THEN <<>>
    ELSE IF a = b THEN lines[a]
    ELSE lines[a] \o <<"\n">> \o JoinLines(lines, a + 1, b)

(***************************************************************************)
(* json.loads, over the characters of the model:                           *)
(*   { } [ ] " \ : , a 1 and whitespace.                                   *)
(* A result is [ok, pos, val]: ok is FALSE where json.loads raises.        *)
(***************************************************************************)
JsonWhitespace == {" ", "\n", "\t", "\r"}
\* characters json rejects inside a string literal (strict mode)
ControlChars == {"\n", "\t", "\r", "\f"}
JsonDigits == {"1"}
NoneVal == <<"None">>
JsonFail == [ok |-> FALSE, pos |-> 0, val |-> <<>>]

RECURSIVE SkipWs(_, _)
SkipWs(s, p) ==
    IF p <= Len(s) /\ s[p] \in JsonWhitespace THEN SkipWs(s, p + 1) ELSE p

\* the character a backslash escape stands for; "?" for an invalid escape
Unescape(c) ==
    CASE c = "\"" -> "\""
      [] c = "\\" -> "\\"
      [] c = "n"  -> "\n"
      [] OTHER    -> "?"

RECURSIVE ParseStringBody(_, _, _)
\* p is just after the opening quote; acc holds the decoded characters
ParseStringBody(s, p, acc) ==
    IF p > Len(s) THEN JsonFail
    ELSE IF s[p] = "\"" THEN
        [ok |-> TRUE, pos |-> p + 1, val |-> <<"STR">> \o acc \o <<"END">>]
    ELSE IF s[p] = "\\" THEN
        IF p + 1 <= Len(s) /\ Unescape(s[p + 1]) # "?"
        THEN ParseStringBody(s, p + 2, Append(acc, Unescape(s[p + 1])))
        ELSE JsonFail
    ELSE IF s[p] \in ControlChars THEN JsonFail
    ELSE ParseStringBody(s, p + 1, Append(acc, s[p]))

RECURSIVE ParseDigits(_, _)
ParseDigits(s, p) ==
    IF p <= Len(s) /\ s[p] \in JsonDigits THEN ParseDigits(s, p + 1) ELSE p

RECURSIVE ParseValue(_, _)
RECURSIVE ParseMembers(_, _, _)
RECURSIVE ParseItems(_, _, _)

\* p is at the opening quote of a key; acc holds the members parsed so far
ParseMembers(s, p, acc) ==
    IF p > Len(s) \/ s[p] # "\"" THEN JsonFail
    ELSE
      LET k == ParseStringBody(s, p + 1, <<>>) IN
      IF ~k.ok THEN JsonFail
      ELSE
        LET c == SkipWs(s, k.pos) IN
        IF c > Len(s) \/ s[c] # ":" THEN JsonFail
        ELSE
          LET v == ParseValue(s, SkipWs(s, c + 1)) IN
          IF ~v.ok THEN JsonFail
          ELSE
            LET e    == SkipWs(s, v.pos)
                acc2 == acc \o k.val \o <<":">> \o v.val
            IN  IF e > Len(s) THEN JsonFail
                ELSE IF s[e] = "}" THEN
                    [ok |-> TRUE, pos |-> e + 1,
                     val |-> <<"{">> \o acc2 \o <<"}">>]
                ELSE IF s[e] = "," THEN
                    ParseMembers(s, SkipWs(s, e + 1), acc2 \o <<",">>)
                ELSE JsonFail

\* p is at the first character of an item; acc holds the items parsed so far
ParseItems(s, p, acc) ==
    LET v == ParseValue(s, p) IN
    IF ~v.ok THEN JsonFail
    ELSE
      LET e    == SkipWs(s, v.pos)
          acc2 == acc \o v.val
      IN  IF e > Len(s) THEN JsonFail
          ELSE IF s[e] = "]" THEN
              [ok |-> TRUE, pos |-> e + 1, val |-> <<"[">> \o acc2 \o <<"]">>]
          ELSE IF s[e] = "," THEN
              ParseItems(s, SkipWs(s, e + 1), acc2 \o <<",">>)
          ELSE JsonFail

ParseValue(s, p) ==
    IF p > Len(s) THEN JsonFail
    ELSE IF s[p] = "{" THEN
        LET q == SkipWs(s, p + 1) IN
        IF q <= Len(s) /\ s[q] = "}"
        THEN [ok |-> TRUE, pos |-> q + 1, val |-> <<"{", "}">>]
        ELSE ParseMembers(s, q, <<>>)
    ELSE IF s[p] = "[" THEN
        LET q == SkipWs(s, p + 1) IN
        IF q <= Len(s) /\ s[q] = "]"
        THEN [ok |-> TRUE, pos |-> q + 1, val |-> <<"[", "]">>]
        ELSE ParseItems(s, q, <<>>)
    ELSE IF s[p] = "\"" THEN ParseStringBody(s, p + 1, <<>>)
    ELSE IF s[p] \in JsonDigits THEN
        LET q == ParseDigits(s, p) IN
        [ok |-> TRUE, pos |-> q, val |-> <<"NUM">> \o SubSeq(s, p, q - 1) \o <<"END">>]
    ELSE JsonFail

\* json.loads(s): [ok, val]
JsonLoads(s) ==
    LET r == ParseValue(s, SkipWs(s, 1)) IN
    IF r.ok /\ SkipWs(s, r.pos) = Len(s) + 1
    THEN [ok |-> TRUE, val |-> r.val]
    ELSE [ok |-> FALSE, val |-> <<>>]

\* isinstance(v, dict) for a parsed value
IsDict(v) == Len(v) >= 2 /\ v[1] = "{"


(***************************************************************************)
(* The arguments extract_json_from_result is applied to.                   *)
(***************************************************************************)
ScanAlphabet == {"{", "}", "\"", "\\", "a"}
\* stands for the grave accent, which the TLA+ lexer does not accept in a string
Backtick == "~"
\* the fence marker of a markdown code block
FenceMark == <<Backtick, Backtick, Backtick>>

\* every string over alphabet of length 0..n
StringsUpTo(alphabet, n) == UNION {[1..k -> alphabet] : k \in 0..n}

\* {}
DocEmpty ==
    <<"{", "}">>
\* {"a":1}
DocPair ==
    <<"{", "\"", "a", "\"", ":", "1", "}">>
\* {"a":"}"}
DocBraceInString ==
    <<"{", "\"", "a", "\"", ":", "\"", "}", "\"", "}">>
\* {"a":"\"}"}
DocEscapedQuote ==
    <<"{", "\"", "a", "\"", ":", "\"", "\\", "\"", "}", "\"", "}">>
\* {"a\\":1}
DocEscapedBackslash ==
    <<"{", "\"", "a", "\\", "\\", "\"", ":", "1", "}">>
\* {"a\\":"\"}"}
DocEscapes ==
    <<"{", "\"", "a", "\\", "\\", "\"", ":", "\"", "\\", "\"", "}", "\"",
      "}">>
\* {"a":{"a":[1]}}
DocNested ==
    <<"{", "\"", "a", "\"", ":", "{", "\"", "a", "\"", ":", "[", "1", "]",
      "}", "}">>
\* {"a": [1,1,"a}a"]}
DocScenario ==
    <<"{", "\"", "a", "\"", ":", " ", "[", "1", ",", "1", ",", "\"", "a",
      "}", "a", "\"", "]", "}">>
\* [1,"a"]
DocArray ==
    <<"[", "1", ",", "\"", "a", "\"", "]">>
\* 11
DocNumber ==
    <<"1", "1">>
\* "a{"
DocString ==
    <<"\"", "a", "{", "\"">>
\* ```json\n
FenceJson ==
    <<Backtick, Backtick, Backtick, "j", "s", "o", "n", "\n">>
\* ```\n
FencePlain ==
    <<Backtick, Backtick, Backtick, "\n">>
\* \n```
FenceClose ==
    <<"\n", Backtick, Backtick, Backtick>>
\*  aa
TailProse ==
    <<" ", "a", "a">>
\* \f
TailFormFeed ==
    <<"\f">>
\* \naa
TailNewlineProse ==
    <<"\n", "a", "a">>

ObjectDocs == {DocEmpty, DocPair, DocBraceInString, DocEscapedQuote,
               DocEscapedBackslash, DocEscapes, DocNested, DocScenario}
OtherDocs == {DocArray, DocNumber, DocString}
Heads == {<<>>, <<" ">>, <<"\n">>}
Tails == StringsUpTo(ScanAlphabet, MaxLen - 3)
           \cup {TailProse, TailFormFeed, TailNewlineProse, <<" ", "\n">>}
Fences == {FenceJson, FencePlain}

\* a document, possibly after whitespace and before trailing text
TailedTexts == {h \o d \o t : h \in Heads, d \in ObjectDocs \cup OtherDocs, t \in Tails}
\* a document in a fenced code block, possibly before trailing text
\* {
\* "a":1
\* }
DocLines ==
    <<"{", "\n", "\"", "a", "\"", ":", "1", "\n", "}">>
\* "```"
DocFenceString ==
    <<"\"", Backtick, Backtick, Backtick, "\"">>
\* \n```\n{}
TailSecondFence ==
    <<"\n", Backtick, Backtick, Backtick, "\n", "{", "}">>
FencedDocs == {DocPair, DocArray, DocNested, DocNumber, DocLines, DocFenceString}
FencedFollow == {<<>>, TailNewlineProse, TailSecondFence}
FencedTexts ==
    {f \o d \o t \o FenceClose \o u :
        f \in Fences, d \in FencedDocs \cup {<<"a">>},
        t \in {<<>>, TailProse}, u \in FencedFollow}
        \cup {FenceJson \o DocPair, FenceMark \o DocPair}

\* {"issues":[1]}
DocIssues ==
    <<"{", "\"", "i", "s", "s", "u", "e", "s", "\"", ":", "[", "1", "]", "}">>
\* { "issues":[]}
DocIssuesSpaced ==
    <<"{", " ", "\"", "i", "s", "s", "u", "e", "s", "\"", ":", "[", "]", "}">>
\* {"issues":{"a":"}"}}
DocIssuesNested ==
    <<"{", "\"", "i", "s", "s", "u", "e", "s", "\"", ":", "{", "\"", "a",
      "\"", ":", "\"", "}", "\"", "}", "}">>
\* {"issues":[1}
DocIssuesBroken ==
    <<"{", "\"", "i", "s", "s", "u", "e", "s", "\"", ":", "[", "1", "}">>
\* {\n  "issues":[]}   with a backslash and an n, not a line break
DocIssuesEscaped ==
    <<"{", "\\", "n", " ", " ", "\"", "i", "s", "s", "u", "e", "s", "\"",
      ":", "[", "]", "}">>
\* aa
LeadProse ==
    <<"a", "a", " ">>
IssuesDocs == {DocIssues, DocIssuesSpaced, DocIssuesNested, DocIssuesBroken,
               DocIssuesEscaped}
\* prose or an array before an object, possibly before trailing text
ProseTexts ==
    {h \o d \o t : h \in {LeadProse, DocArray \o <<" ">>, <<"a">>},
                   d \in IssuesDocs \cup {DocPair, DocNested},
                   t \in {<<>>, TailProse}}
        \cup {d \o t : d \in IssuesDocs, t \in {<<>>, TailProse}}

Texts == StringsUpTo(ScanAlphabet, MaxLen) \cup TailedTexts \cup FencedTexts
            \cup ProseTexts

\* the dicts passed in directly, or held in a .raw attribute
Dicts == {JsonLoads(d).val : d \in ObjectDocs}
\* what a .raw attribute or the str() of an object holding one may be
RawTexts == {DocPair, DocPair \o TailProse, FencePlain \o DocPair \o FenceClose,
             DocArray, <<"a">>}

\* a variant of the extractor that has not been called
NotCalled == [set |-> FALSE, val |-> NoneVal]

Arg(kind, val, raw, text) == [kind |-> kind, val |-> val, raw |-> raw, text |-> text]

Arguments ==
    {Arg("str", <<>>, <<>>, x) : x \in Texts}
        \cup {Arg("dict", d, <<>>, <<>>) : d \in Dicts}
        \cup {Arg("raw_dict", d, <<>>, x) : d \in Dicts, x \in {<<"a">>}}
        \cup {Arg("raw_str", <<>>, r, x) : r \in RawTexts, x \in RawTexts}
        \cup {Arg("raw_other", <<>>, <<>>, x) : x \in RawTexts}

(***************************************************************************)
(* extract_json_from_result (src/helper_func.py).                          *)
(***************************************************************************)
\* ScanStep with the in_string test of the brace branch left out
ScanStepBracesInStrings(c, bc, ins, esc) ==
    IF esc THEN
        [brace_count |-> bc, in_string |-> ins, escape_next |-> FALSE, stop |-> FALSE]
    ELSE IF c = "\\" /\ ins THEN
        [brace_count |-> bc, in_string |-> ins, escape_next |-> TRUE, stop |-> FALSE]
    ELSE IF c = "\"" THEN
        [brace_count |-> bc, in_string |-> ~ins, escape_next |-> esc, stop |-> FALSE]
    ELSE IF c = "{" THEN
        [brace_count |-> bc + 1, in_string |-> ins, escape_next |-> esc, stop |-> FALSE]
    ELSE IF c = "}" THEN
        [brace_count |-> bc - 1, in_string |-> ins, escape_next |-> esc,
         stop |-> (bc - 1 = 0)]
    ELSE
        [brace_count |-> bc, in_string |-> ins, escape_next |-> esc, stop |-> FALSE]

\* ScanStep with the escape handling left out
ScanStepNoEscape(c, bc, ins, esc) ==
    IF c = "\"" THEN
        [brace_count |-> bc, in_string |-> ~ins, escape_next |-> FALSE, stop |-> FALSE]
    ELSE IF ~ins /\ c = "{" THEN
        [brace_count |-> bc + 1, in_string |-> ins, escape_next |-> FALSE, stop |-> FALSE]
    ELSE IF ~ins /\ c = "}" THEN
        [brace_count |-> bc - 1, in_string |-> ins, escape_next |-> FALSE,
         stop |-> (bc - 1 = 0)]
    ELSE
        [brace_count |-> bc, in_string |-> ins, escape_next |-> FALSE, stop |-> FALSE]

\* ScanStep with a backslash starting an escape outside strings too
ScanStepEscapeAnywhere(c, bc, ins, esc) ==
    IF esc THEN
        [brace_count |-> bc, in_string |-> ins, escape_next |-> FALSE, stop |-> FALSE]
    ELSE IF c = "\\" THEN
        [brace_count |-> bc, in_string |-> ins, escape_next |-> TRUE, stop |-> FALSE]
    ELSE IF c = "\"" THEN
        [brace_count |-> bc, in_string |-> ~ins, escape_next |-> esc, stop |-> FALSE]
    ELSE IF ~ins /\ c = "{" THEN
        [brace_count |-> bc + 1, in_string |-> ins, escape_next |-> esc, stop |-> FALSE]
    ELSE IF ~ins /\ c = "}" THEN
        [brace_count |-> bc - 1, in_string |-> ins, escape_next |-> esc,
         stop |-> (bc - 1 = 0)]
    ELSE
        [brace_count |-> bc, in_string |-> ins, escape_next |-> esc, stop |-> FALSE]

\* one iteration of the brace scan on character c: the new locals, and stop
\* where the loop breaks
ScanStep(c, bc, ins, esc) ==
    IF esc THEN
        [brace_count |-> bc, in_string |-> ins, escape_next |-> FALSE, stop |-> FALSE]
    ELSE IF c = "\\" /\ ins THEN
        [brace_count |-> bc, in_string |-> ins, escape_next |-> TRUE, stop |-> FALSE]
    ELSE IF c = "\"" /\ ~ins THEN
        [brace_count |-> bc, in_string |-> TRUE, escape_next |-> esc, stop |-> FALSE]
    ELSE IF c = "\"" /\ ins THEN
        [brace_count |-> bc, in_string |-> FALSE, escape_next |-> esc, stop |-> FALSE]
    ELSE IF ~ins /\ c = "{" THEN
        [brace_count |-> bc + 1, in_string |-> ins, escape_next |-> esc, stop |-> FALSE]
    ELSE IF ~ins /\ c = "}" THEN
        [brace_count |-> bc - 1, in_string |-> ins, escape_next |-> esc,
         stop |-> (bc - 1 = 0)]
    ELSE
        [brace_count |-> bc, in_string |-> ins, escape_next |-> esc, stop |-> FALSE]

\* the content of a fenced block: lines[start_idx:end_idx] joined
RECURSIVE FenceEnd(_, _)
FenceEnd(lines, k) ==
    IF k > Len(lines) THEN Len(lines) + 1
    ELSE IF PyStrip(lines[k]) = FenceMark THEN k
    ELSE FenceEnd(lines, k + 1)

\* FenceContent with start_idx always 0: the opening fence line is kept
FenceContentWithOpening(s) ==
    LET lines == SplitLines(s)
        end   == FenceEnd(lines, 1)
    IN  JoinLines(lines, 1, end - 1)

FenceContent(s) ==
    LET lines == SplitLines(s)
        first == PyStrip(lines[1])
        start == IF first \in {FenceMark \o <<"j", "s", "o", "n">>, FenceMark}
                 THEN 2 ELSE 1
        end   == FenceEnd(lines, start)
    IN  JoinLines(lines, start, end - 1)

JsonLocals == <<result_str, idx, brace_count, in_string, escape_next, end_idx>>

Return(v) ==
    /\ ret' = v
    /\ pc' = "done"

\* ReturnDict with the isinstance test lost: the dict goes through str()
ReturnDictViaStr ==
    /\ pc = "start"
    /\ result_text.kind = "dict"
    /\ pc' = "str"
    /\ UNCHANGED <<JsonFrame, result_text, JsonLocals, ret, loads_calls, rounds>>

\* isinstance(result_text, dict): return result_text
ReturnDict ==
    /\ pc = "start"
    /\ result_text.kind = "dict"
    /\ Return(result_text.val)
    /\ UNCHANGED <<JsonFrame, result_text, JsonLocals, loads_calls, rounds>>

\* hasattr(result_text, 'raw'), isinstance(result_text.raw, dict)
ReturnRawDict ==
    /\ pc = "start"
    /\ result_text.kind = "raw_dict"
    /\ Return(result_text.val)
    /\ UNCHANGED <<JsonFrame, result_text, JsonLocals, loads_calls, rounds>>

\* isinstance(result_text.raw, str): try json.loads(result_text.raw), except: pass
ParseRaw ==
    /\ pc = "start"
    /\ result_text.kind = "raw_str"
    /\ loads_calls' = loads_calls + 1
    /\ LET r == JsonLoads(result_text.raw) IN
         IF r.ok THEN Return(r.val)
         ELSE pc' = "str" /\ UNCHANGED ret
    /\ UNCHANGED <<JsonFrame, result_text, JsonLocals, rounds>>

\* result_str = str(result_text).strip()
ToStr ==
    /\ pc \in {"start", "str"}
    /\ pc = "start" => result_text.kind \in {"str", "raw_other"}
    /\ result_str' = PyStrip(result_text.text)
    /\ pc' = "fence"
    /\ UNCHANGED <<JsonFrame, result_text, idx, brace_count, in_string, escape_next, end_idx,
                   ret, loads_calls, rounds>>

\* result_str does not start with a fence
NoFence ==
    /\ pc = "fence"
    /\ ~StartsWith(result_str, FenceMark)
    /\ pc' = "whole"
    /\ UNCHANGED <<JsonFrame, result_text, JsonLocals, ret, loads_calls, rounds>>

\* result_str.startswith('```'): parse what is between the fences
Fence ==
    /\ pc = "fence"
    /\ StartsWith(result_str, FenceMark)
    /\ loads_calls' = loads_calls + 1
    /\ LET json_content == FenceContent(result_str)
           r == JsonLoads(json_content)
       IN  IF r.ok THEN Return(r.val) /\ UNCHANGED result_str
           ELSE /\ result_str' = PyStrip(json_content)
                /\ pc' = "whole"
                /\ UNCHANGED ret
    /\ UNCHANGED <<JsonFrame, result_text, idx, brace_count, in_string, escape_next, end_idx,
                   rounds>>

\* ParseWhole without the parse of the whole string: only the brace scan
ParseWholeScanOnly ==
    /\ pc = "whole"
    /\ IF StartsWith(result_str, <<"{">>) THEN
           /\ pc' = "scan"
           /\ idx' = 1
           /\ brace_count' = 0
           /\ in_string' = FALSE
           /\ escape_next' = FALSE
           /\ end_idx' = -1
           /\ UNCHANGED ret
       ELSE Return(NoneVal) /\ UNCHANGED <<idx, brace_count, in_string,
                                            escape_next, end_idx>>
    /\ UNCHANGED <<JsonFrame, result_text, result_str, loads_calls, rounds>>

\* try: return json.loads(result_str); except: scan if it starts with '{'
ParseWhole ==
    /\ pc = "whole"
    /\ loads_calls' = loads_calls + 1
    /\ LET r == JsonLoads(result_str) IN
         IF r.ok THEN Return(r.val) /\ UNCHANGED <<idx, brace_count, in_string,
                                                    escape_next, end_idx>>
         ELSE IF StartsWith(result_str, <<"{">>) THEN
             /\ pc' = "scan"
             /\ idx' = 1
             /\ brace_count' = 0
             /\ in_string' = FALSE
             /\ escape_next' = FALSE
             /\ end_idx' = -1
             /\ UNCHANGED ret
         ELSE Return(NoneVal) /\ UNCHANGED <<idx, brace_count, in_string,
                                              escape_next, end_idx>>
    /\ UNCHANGED <<JsonFrame, result_text, result_str, rounds>>

\* one iteration of: for i, char in enumerate(result_str)
ScanChar ==
    /\ pc = "scan"
    /\ idx <= Len(result_str)
    /\ LET st == ScanStep(result_str[idx], brace_count, in_string, escape_next) IN
         /\ brace_count' = st.brace_count
         /\ in_string' = st.in_string
         /\ escape_next' = st.escape_next
         /\ IF st.stop
            THEN end_idx' = idx /\ pc' = "slice" /\ idx' = idx
            ELSE end_idx' = end_idx /\ pc' = pc /\ idx' = idx + 1
    /\ UNCHANGED <<JsonFrame, result_text, result_str, ret, loads_calls, rounds>>

\* the loop ran off the end of result_str
ScanExhausted ==
    /\ pc = "scan"
    /\ idx > Len(result_str)
    /\ pc' = "slice"
    /\ UNCHANGED <<JsonFrame, result_text, JsonLocals, ret, loads_calls, rounds>>

\* ParseSlice with json.loads outside any try: its exception propagates
ParseSliceUnguarded ==
    /\ pc = "slice"
    /\ IF end_idx # -1
       THEN /\ loads_calls' = loads_calls + 1
            /\ LET r == JsonLoads(SubSeq(result_str, 1, end_idx)) IN
                 IF r.ok THEN Return(r.val) ELSE pc' = "raised" /\ UNCHANGED ret
       ELSE Return(NoneVal) /\ UNCHANGED loads_calls
    /\ UNCHANGED <<JsonFrame, result_text, JsonLocals, rounds>>

\* if end_idx != -1: try json.loads(result_str[:end_idx]); return None otherwise
ParseSlice ==
    /\ pc = "slice"
    /\ IF end_idx # -1
       THEN /\ loads_calls' = loads_calls + 1
            /\ LET r == JsonLoads(SubSeq(result_str, 1, end_idx)) IN
                 Return(IF r.ok THEN r.val ELSE NoneVal)
       ELSE Return(NoneVal) /\ UNCHANGED loads_calls
    /\ UNCHANGED <<JsonFrame, result_text, JsonLocals, rounds>>

\* the caller passes a dict result back to extract_json_from_result
Reapply ==
    /\ pc = "done"
    /\ IsDict(ret)
    /\ rounds < MaxRounds
    /\ rounds' = rounds + 1
    /\ result_text' = Arg("dict", ret, <<>>, <<>>)
    /\ pc' = "start"
    /\ result_str' = <<>>
    /\ idx' = 0
    /\ brace_count' = 0
    /\ in_string' = FALSE
    /\ escape_next' = FALSE
    /\ end_idx' = -1
    /\ ret' = NoneVal
    /\ loads_calls' = 0
    /\ calc_ret' = NotCalled
    /\ blocker_ret' = NotCalled
    /\ UNCHANGED <<ts_vars, wd_vars, cm_vars, bug_vars, fix_vars, raw_ret>>

(***************************************************************************)
(* The other extractors of the repository:                                 *)
(* BugCalculator.extract_json_from_result (src/helper_func.py) and         *)
(* BlockerBugCalculator.extract_json_from_result with                      *)
(* _extract_json_from_string (src/blocker_bug_calculator.py; the copy in   *)
(* src/critical_bug_calculator.py is the same text).                       *)
(***************************************************************************)

\* ToggleScanStep with a quote toggling in_string only outside strings: a
\* string, once opened, is never closed
ToggleScanStepNeverCloses(c, bc, ins, esc) ==
    IF esc THEN
        [brace_count |-> bc, in_string |-> ins, escape_next |-> FALSE, stop |-> FALSE]
    ELSE IF c = "\\" /\ ins THEN
        [brace_count |-> bc, in_string |-> ins, escape_next |-> TRUE, stop |-> FALSE]
    ELSE IF c = "\"" /\ ~ins THEN
        [brace_count |-> bc, in_string |-> TRUE, escape_next |-> esc, stop |-> FALSE]
    ELSE IF ~ins /\ c = "{" THEN
        [brace_count |-> bc + 1, in_string |-> ins, escape_next |-> esc, stop |-> FALSE]
    ELSE IF ~ins /\ c = "}" THEN
        [brace_count |-> bc - 1, in_string |-> ins, escape_next |-> esc,
         stop |-> (bc - 1 = 0)]
    ELSE
        [brace_count |-> bc, in_string |-> ins, escape_next |-> esc, stop |-> FALSE]

\* one iteration of their brace scan on character c: a quote toggles
\* in_string when escape_next is not set
ToggleScanStep(c, bc, ins, esc) ==
    IF esc THEN
        [brace_count |-> bc, in_string |-> ins, escape_next |-> FALSE, stop |-> FALSE]
    ELSE IF c = "\\" /\ ins THEN
        [brace_count |-> bc, in_string |-> ins, escape_next |-> TRUE, stop |-> FALSE]
    ELSE IF c = "\"" /\ ~esc THEN
        [brace_count |-> bc, in_string |-> ~ins, escape_next |-> esc, stop |-> FALSE]
    ELSE IF ~ins /\ c = "{" THEN
        [brace_count |-> bc + 1, in_string |-> ins, escape_next |-> esc, stop |-> FALSE]
    ELSE IF ~ins /\ c = "}" THEN
        [brace_count |-> bc - 1, in_string |-> ins, escape_next |-> esc,
         stop |-> (bc - 1 = 0)]
    ELSE
        [brace_count |-> bc, in_string |-> ins, escape_next |-> esc, stop |-> FALSE]

RECURSIVE ToggleScan(_, _)
\* the locals of their scan after k iterations over s, or at its break
ToggleScan(s, k) ==
    IF k = 0
    THEN [brace_count |-> 0, in_string |-> FALSE, escape_next |-> FALSE,
          end_idx |-> -1]
    ELSE LET before == ToggleScan(s, k - 1) IN
         IF before.end_idx # -1 THEN before
         ELSE LET st == ToggleScanStep(s[k], before.brace_count,
                                       before.in_string, before.escape_next)
              IN  [brace_count |-> st.brace_count, in_string |-> st.in_string,
                   escape_next |-> st.escape_next,
                   end_idx |-> IF st.stop THEN k ELSE -1]

\* end_idx once the loop is over
ToggleScanEnd(s) == ToggleScan(s, Len(s)).end_idx

\* json.loads(s[:end_idx]) after the scan of s: the value, or None
ParseBalanced(s) ==
    LET e == ToggleScanEnd(s) IN
    IF e = -1 THEN NoneVal
    ELSE LET r == JsonLoads(SubSeq(s, 1, e)) IN
         IF r.ok THEN r.val ELSE NoneVal

\* text.find(pat) counted from 1; 0 where Python gives -1
Find(s, pat) ==
    LET at == {p \in 1..(Len(s) - Len(pat) + 1) : SubSeq(s, p, p + Len(pat) - 1) = pat}
    IN  IF at = {} THEN 0 ELSE CHOOSE p \in at : \A q \in at : p <= q

\* {"issues":
IssuesMarker ==
    <<"{", "\"", "i", "s", "s", "u", "e", "s", "\"", ":">>
\* { "issues":
IssuesMarkerSpaced ==
    <<"{", " ", "\"", "i", "s", "s", "u", "e", "s", "\"", ":">>
\* {\n  "issues":   (a backslash and an n: the literal is not a raw string)
IssuesMarkerEscaped ==
    <<"{", "\\", "n", " ", " ", "\"", "i", "s", "s", "u", "e", "s", "\"", ":">>

\* start_idx of Method C, counted from 1; 0 where Python gives -1
IssuesStart(text) ==
    IF Find(text, IssuesMarker) # 0 THEN Find(text, IssuesMarker)
    ELSE IF Find(text, IssuesMarkerSpaced) # 0 THEN Find(text, IssuesMarkerSpaced)
    ELSE Find(text, IssuesMarkerEscaped)

\* _extract_json_from_string with Method C starting at the first '{'
ExtractJsonFromStringAnyBrace(text) ==
    LET whole == JsonLoads(text)
        t     == PyStrip(text)
        b     == IF StartsWith(t, <<"{">>) THEN ParseBalanced(t) ELSE NoneVal
        start == Find(t, <<"{">>)
    IN  IF whole.ok THEN whole.val
        ELSE IF b # NoneVal THEN b
        ELSE IF start # 0 THEN ParseBalanced(SubSeq(t, start, Len(t)))
        ELSE NoneVal

\* _extract_json_from_string(text): Method A (the whole string), Method B
\* (the scan, if the stripped text starts with '{'), Method C (the scan from
\* where an "issues" object starts)
ExtractJsonFromString(text) ==
    LET whole == JsonLoads(text)
        t     == PyStrip(text)
        b     == IF StartsWith(t, <<"{">>) THEN ParseBalanced(t) ELSE NoneVal
        start == IssuesStart(t)
    IN  IF whole.ok THEN whole.val
        ELSE IF b # NoneVal THEN b
        ELSE IF start # 0 THEN ParseBalanced(SubSeq(t, start, Len(t)))
        ELSE NoneVal

\* BlockerBugCalculator.extract_json_from_result(arg)
BlockerExtractJsonFromResult(arg) ==
    IF arg.kind \in {"dict", "raw_dict"} THEN arg.val
    ELSE IF arg.kind = "raw_str" THEN ExtractJsonFromString(arg.raw)
    ELSE ExtractJsonFromString(PyStrip(arg.text))

\* BugCalculator.extract_json_from_result(arg)
BugCalculatorExtractJsonFromResult(arg) ==
    LET raw        == JsonLoads(arg.raw)
        result_str_ == PyStrip(arg.text)
        whole      == JsonLoads(result_str_)
    IN  IF arg.kind \in {"dict", "raw_dict"} THEN arg.val
        ELSE IF arg.kind = "raw_str" /\ raw.ok THEN raw.val
        ELSE IF whole.ok THEN whole.val
        ELSE IF StartsWith(result_str_, <<"{">>) THEN ParseBalanced(result_str_)
        ELSE NoneVal

\* the caller hands the same argument to BugCalculator's extractor
ExtractBugCalculator ==
    /\ pc = "done"
    /\ ~calc_ret.set
    /\ calc_ret' = [set |-> TRUE, val |-> BugCalculatorExtractJsonFromResult(result_text)]
    /\ UNCHANGED <<ts_vars, wd_vars, cm_vars, bug_vars, fix_vars, raw_ret, blocker_ret, result_text,
                   JsonLocals, pc, ret, loads_calls, rounds>>

\* the caller hands the same argument to BlockerBugCalculator's extractor
ExtractBlocker ==
    /\ pc = "done"
    /\ ~blocker_ret.set
    /\ blocker_ret' = [set |-> TRUE, val |-> BlockerExtractJsonFromResult(result_text)]
    /\ UNCHANGED <<ts_vars, wd_vars, cm_vars, bug_vars, fix_vars, raw_ret, calc_ret, result_text,
                   JsonLocals, pc, ret, loads_calls, rounds>>

BugIdle ==
    /\ issues = <<>>
    /\ priority_ids = {}
    /\ bug_idx = 0
    /\ bug_metrics = <<>>
    /\ bugs_fixed = <<>>
    /\ bug_pc = "idle"
    /\ fix_idx = 0
    /\ stats = <<>>
    /\ blocker_bugs_fixed = <<>>
    /\ fix_pc = "idle"

MetricsIdle ==
    /\ all_items = <<>>
    /\ item_type = <<>>
    /\ item_idx = 0
    /\ metrics = <<>>
    /\ recent_activity_items = <<>>
    /\ recently_created_items = <<>>
    /\ recently_resolved_items = <<>>
    /\ cm_pc = "idle"

WithinIdle ==
    /\ days = 0
    /\ now = 0
    /\ instant = [known |-> FALSE, t |-> 0]
    /\ within = "unset"
    /\ within_epoch = "unset"
    /\ wd_pc = "idle"

\* extract_json_from_result(result_text.raw), called once the call on the
\* object result_text has returned
ExtractFromRaw ==
    /\ pc = "done"
    /\ result_text.kind = "raw_str"
    /\ ~raw_ret.set
    /\ raw_ret' = [set |-> TRUE, val |-> ret]
    /\ result_text' = Arg("str", <<>>, <<>>, result_text.raw)
    /\ pc' = "start"
    /\ result_str' = <<>>
    /\ idx' = 0
    /\ brace_count' = 0
    /\ in_string' = FALSE
    /\ escape_next' = FALSE
    /\ end_idx' = -1
    /\ ret' = NoneVal
    /\ loads_calls' = 0
    /\ calc_ret' = NotCalled
    /\ blocker_ret' = NotCalled
    /\ UNCHANGED <<ts_vars, wd_vars, cm_vars, bug_vars, fix_vars, rounds>>

TsIdle ==
    /\ timestamp = [type |-> "NoneType", s |-> <<>>, n |-> 0, milli |-> 0, huge |-> FALSE]
    /\ tz = 0
    /\ ts_pc = "idle"
    /\ formatted = <<>>
    /\ reformatted = <<>>
    /\ token_only = <<>>
    /\ from_decimal = <<>>

InitJson ==
    /\ result_text \in Arguments
    /\ pc = "start"
    /\ result_str = <<>>
    /\ idx = 0
    /\ brace_count = 0
    /\ in_string = FALSE
    /\ escape_next = FALSE
    /\ end_idx = -1
    /\ ret = NoneVal
    /\ loads_calls = 0
    /\ rounds = 0
    /\ raw_ret = [set |-> FALSE, val |-> NoneVal]
    /\ calc_ret = NotCalled
    /\ blocker_ret = NotCalled
    /\ TsIdle
    /\ WithinIdle
    /\ MetricsIdle
    /\ BugIdle

NextJson ==
    \/ ReturnDict
    \/ ReturnRawDict
    \/ ParseRaw
    \/ ToStr
    \/ NoFence
    \/ Fence
    \/ ParseWhole
    \/ ScanChar
    \/ ScanExhausted
    \/ ParseSlice
    \/ Reapply
    \/ ExtractFromRaw
    \/ ExtractBugCalculator
    \/ ExtractBlocker

SpecJson == InitJson /\ [][NextJson]_vars


(***************************************************************************)
(* format_timestamp (src/helper_func.py).                                  *)
(*                                                                         *)
(* A value is [type, s, n, milli, huge]: a str holds its characters in s;  *)
(* an int is n; a float is n + milli/1000 with n its floor; a list has n   *)
(* elements.  huge marks a number of 13 or more integer digits, beyond the *)
(* calendar range of datetime.  Fractions have fewer than seven digits or  *)
(* do not start with 999999, so that rounding to the microsecond carries   *)
(* no second.  The local zone is a fixed offset tz.                        *)
(***************************************************************************)
\* Not Set
NotSet ==
    <<"N", "o", "t", " ", "S", "e", "t">>
\* Unknown Format
UnknownFormat ==
    <<"U", "n", "k", "n", "o", "w", "n", " ", "F", "o", "r", "m", "a", "t">>
\* Invalid (
InvalidOpen ==
    <<"I", "n", "v", "a", "l", "i", "d", " ", "(">>
\* None
NoneLiteral ==
    <<"N", "o", "n", "e">>

Value(type, s, n, milli, huge) ==
    [type |-> type, s |-> s, n |-> n, milli |-> milli, huge |-> huge]
StrValue(s) == Value("str", s, 0, 0, FALSE)
NoneValue == Value("NoneType", <<>>, 0, 0, FALSE)

\* bool(v)
Truthy(v) ==
    CASE v.type = "NoneType" -> FALSE
      [] v.type = "str"      -> v.s # <<>>
      [] v.type = "int"      -> v.n # 0 \/ v.huge
      [] v.type = "float"    -> v.n # 0 \/ v.milli # 0 \/ v.huge
      [] OTHER               -> v.n # 0

\* type(v).__name__
TypeName(v) ==
    CASE v.type = "str"   -> <<"s", "t", "r">>
      [] v.type = "int"   -> <<"i", "n", "t">>
      [] v.type = "float" -> <<"f", "l", "o", "a", "t">>
      [] v.type = "list"  -> <<"l", "i", "s", "t">>
      [] OTHER            -> <<"N", "o", "n", "e", "T", "y", "p", "e">>

\* f"Invalid ({type(timestamp).__name__})"
Invalid(v) == InvalidOpen \o TypeName(v) \o <<")">>

Digits == <<"0", "1", "2", "3", "4", "5", "6", "7", "8", "9">>
IsDigit(c) == \E d \in 1..10 : Digits[d] = c
DigitValue(c) == (CHOOSE d \in 1..10 : Digits[d] = c) - 1

RECURSIVE DigitsValue(_, _)
\* the number the digits s[1..k] write
DigitsValue(s, k) ==
    IF k = 0 THEN 0 ELSE 10 * DigitsValue(s, k - 1) + DigitValue(s[k])

RECURSIVE DigitsEnd(_, _)
\* the first position from p on that holds no digit
DigitsEnd(s, p) == IF p <= Len(s) /\ IsDigit(s[p]) THEN DigitsEnd(s, p + 1) ELSE p

RECURSIVE LeadingZeros(_, _)
LeadingZeros(s, p) ==
    IF p <= Len(s) /\ s[p] = "0" THEN 1 + LeadingZeros(s, p + 1) ELSE 0

\* timestamp.strip().split()[0]; <<>> when split() gives no part
RECURSIVE TokenEnd(_, _)
TokenEnd(s, p) ==
    IF p <= Len(s) /\ s[p] \notin PyWhitespace THEN TokenEnd(s, p + 1) ELSE p

FirstToken(s) ==
    LET p == LStripFrom(s, 1) IN
    IF p > Len(s) THEN <<>> ELSE SubSeq(s, p, TokenEnd(s, p) - 1)

\* float(tok) for a token of digits, '.', and a sign: [ok, n, frac, huge, exc]
\* with n + (a fraction, nonzero iff frac) the value and n its floor; ok is FALSE
\* where float raises ValueError; exc is what datetime.fromtimestamp raises for
\* a huge value (CPython on 64-bit Linux: ValueError "year out of range" up to
\* 16 digits, OSError or OverflowError beyond)
PyFloat(tok) ==
    LET signed == tok # <<>> /\ tok[1] \in {"-", "+"}
        neg    == tok # <<>> /\ tok[1] = "-"
        a      == IF signed THEN 2 ELSE 1
        b      == DigitsEnd(tok, a)
        dot    == b <= Len(tok) /\ tok[b] = "."
        c      == IF dot THEN DigitsEnd(tok, b + 1) ELSE b
        ip     == SubSeq(tok, a, b - 1)
        fp     == IF dot THEN SubSeq(tok, b + 1, c - 1) ELSE <<>>
        ok     == c = Len(tok) + 1 /\ Len(ip) + Len(fp) > 0
        huge   == Len(ip) - LeadingZeros(ip, 1) >= 13
        whole  == IF huge THEN 0 ELSE DigitsValue(ip, Len(ip))
        frac   == \E k \in 1..Len(fp) : fp[k] # "0"
        sig    == Len(ip) - LeadingZeros(ip, 1)
    IN  IF ~ok THEN [ok |-> FALSE, n |-> 0, frac |-> FALSE, huge |-> FALSE,
                     exc |-> "ValueError"]
        ELSE [ok |-> TRUE,
              n |-> IF ~neg THEN whole ELSE IF frac THEN -whole - 1 ELSE -whole,
              frac |-> frac, huge |-> huge,
              exc |-> IF sig >= 17 THEN "OverflowError" ELSE "ValueError"]

RECURSIVE NatToStr(_)
NatToStr(n) == IF n < 10 THEN <<Digits[n + 1]>> ELSE NatToStr(n \div 10) \o <<Digits[(n % 10) + 1]>>

\* n written with at least w digits
RECURSIVE Pad(_, _)
Pad(s, w) == IF Len(s) >= w THEN s ELSE Pad(<<"0">> \o s, w)

\* the [year, month, day] of the day numbered n from 1970-01-01
CivilFromDays(n) ==
    LET z   == n + 719468
        era == z \div 146097
        doe == z - era * 146097
        yoe == (doe - doe \div 1460 + doe \div 36524 - doe \div 146096) \div 365
        doy == doe - (365 * yoe + yoe \div 4 - yoe \div 100)
        mp  == (5 * doy + 2) \div 153
        d   == doy - (153 * mp + 2) \div 5 + 1
        m   == IF mp < 10 THEN mp + 3 ELSE mp - 9
    IN  [year |-> yoe + era * 400 + (IF m <= 2 THEN 1 ELSE 0), month |-> m, day |-> d]

\* strftime with no hyphens in the date: "%Y%m%d %H:%M:%S"
StrftimeCompact(sec, offset) ==
    LET local == sec + offset
        date  == CivilFromDays(local \div 86400)
        rest  == local % 86400
    IN  Pad(NatToStr(date.year), 4) \o Pad(NatToStr(date.month), 2)
          \o Pad(NatToStr(date.day), 2) \o <<" ">>
          \o Pad(NatToStr(rest \div 3600), 2) \o <<":">>
          \o Pad(NatToStr((rest % 3600) \div 60), 2) \o <<":">>
          \o Pad(NatToStr(rest % 60), 2)

\* datetime.fromtimestamp(sec).strftime("%Y-%m-%d %H:%M:%S") in the zone at offset
Strftime(sec, offset) ==
    LET local == sec + offset
        date  == CivilFromDays(local \div 86400)
        rest  == local % 86400
    IN  Pad(NatToStr(date.year), 4) \o <<"-">> \o Pad(NatToStr(date.month), 2)
          \o <<"-">> \o Pad(NatToStr(date.day), 2) \o <<" ">>
          \o Pad(NatToStr(rest \div 3600), 2) \o <<":">>
          \o Pad(NatToStr((rest % 3600) \div 60), 2) \o <<":">>
          \o Pad(NatToStr(rest % 60), 2)

\* the string branch with the inner except ValueError giving the sentinel
FormatStringSentinel(v, offset) ==
    IF Contains(v.s, "-") /\ Len(v.s) > 10 THEN v.s
    ELSE IF FirstToken(v.s) = <<>> THEN UnknownFormat
    ELSE LET f == PyFloat(FirstToken(v.s)) IN
         IF ~f.ok THEN Invalid(v)
         ELSE IF f.huge THEN Invalid(v)
         ELSE Strftime(f.n, offset)

\* isinstance(timestamp, str): lines 94-113
FormatString(v, offset) ==
    IF Contains(v.s, "-") /\ Len(v.s) > 10 THEN v.s
    ELSE IF FirstToken(v.s) = <<>> THEN UnknownFormat
    ELSE LET f == PyFloat(FirstToken(v.s)) IN
         IF ~f.ok THEN v.s
         ELSE IF f.huge THEN (IF f.exc = "ValueError" THEN v.s ELSE Invalid(v))
         ELSE Strftime(f.n, offset)

\* the first test without the comparison to 'None'
IsNotSetNoLiteral(v) == ~Truthy(v)

\* not timestamp or timestamp == 'None' or timestamp == ''
IsNotSet(v) ==
    \/ ~Truthy(v)
    \/ v.type = "str" /\ v.s = NoneLiteral
    \/ v.type = "str" /\ v.s = <<>>

\* format_timestamp(timestamp), where the local zone is at offset
FormatTimestamp(v, offset) ==
    IF IsNotSet(v) THEN NotSet
    ELSE IF v.type = "str" THEN FormatString(v, offset)
    ELSE IF v.type \in {"int", "float"} THEN
        IF v.huge THEN Invalid(v) ELSE Strftime(v.n, offset)
    ELSE UnknownFormat

(***************************************************************************)
(* The arguments format_timestamp is applied to.                           *)
(***************************************************************************)
TsAlphabet == {"1", "0", ".", "-", " ", "x"}
\* 1753460716.477000000 1440
TsJira ==
    <<"1", "7", "5", "3", "4", "6", "0", "7", "1", "6", ".", "4", "7", "7",
      "0", "0", "0", "0", "0", "0", " ", "1", "4", "4", "0">>
\* 1753460716.477000000 -300
TsJiraWest ==
    <<"1", "7", "5", "3", "4", "6", "0", "7", "1", "6", ".", "4", "7", "7",
      "0", "0", "0", "0", "0", "0", " ", "-", "3", "0", "0">>
\* 1753460716
TsEpoch ==
    <<"1", "7", "5", "3", "4", "6", "0", "7", "1", "6">>
\* 1753460716.477000000
TsEpochFraction ==
    <<"1", "7", "5", "3", "4", "6", "0", "7", "1", "6", ".", "4", "7", "7",
      "0", "0", "0", "0", "0", "0">>
\* 1753460716 1440
TsEpochSuffix ==
    <<"1", "7", "5", "3", "4", "6", "0", "7", "1", "6", " ", "1", "4", "4",
      "0">>
\* 1753460716 -1440
TsEpochNegativeSuffix ==
    <<"1", "7", "5", "3", "4", "6", "0", "7", "1", "6", " ", "-", "1", "4",
      "4", "0">>
\* -1753460716
TsNegativeEpoch ==
    <<"-", "1", "7", "5", "3", "4", "6", "0", "7", "1", "6">>
\* 2025-07-29 08:38:53
TsReadable ==
    <<"2", "0", "2", "5", "-", "0", "7", "-", "2", "9", " ", "0", "8", ":",
      "3", "8", ":", "5", "3">>
\* 2025-07-29
TsDateOnly ==
    <<"2", "0", "2", "5", "-", "0", "7", "-", "2", "9">>
\* 2025-08-07T14:16:52Z
TsIso ==
    <<"2", "0", "2", "5", "-", "0", "8", "-", "0", "7", "T", "1", "4", ":",
      "1", "6", ":", "5", "2", "Z">>
\* not a date
TsProse ==
    <<"n", "o", "t", " ", "a", " ", "d", "a", "t", "e">>
\* 9999999999999
TsHuge ==
    <<"9", "9", "9", "9", "9", "9", "9", "9", "9", "9", "9", "9", "9">>
\* 9999999999999 0
TsHugeSuffix ==
    <<"9", "9", "9", "9", "9", "9", "9", "9", "9", "9", "9", "9", "9", " ",
      "0">>

\* 9999999999999999999
TsBeyond ==
    <<"9", "9", "9", "9", "9", "9", "9", "9", "9", "9", "9", "9", "9", "9", "9",
      "9", "9", "9", "9">>
TsStrings ==
    StringsUpTo(TsAlphabet, MaxTsLen)
        \cup {NoneLiteral, NotSet, TsJira, TsJiraWest, TsEpoch, TsEpochFraction,
              TsEpochSuffix, TsEpochNegativeSuffix, TsNegativeEpoch, TsReadable,
              TsDateOnly, TsIso, TsProse, TsHuge, TsHugeSuffix, TsBeyond}

\* str(v) for an int or a float
PyStr(v) ==
    LET whole == IF v.n >= 0 THEN v.n
                 ELSE IF v.milli = 0 THEN -v.n ELSE -v.n - 1
        milli == IF v.n >= 0 \/ v.milli = 0 THEN v.milli ELSE 1000 - v.milli
        three == Pad(NatToStr(milli), 3)
        last  == IF milli = 0 THEN 1
                 ELSE CHOOSE k \in 1..3 :
                        three[k] # "0" /\ \A j \in (k + 1)..3 : three[j] = "0"
        sign  == IF v.n < 0 THEN <<"-">> ELSE <<>>
    IN  IF v.huge THEN TsHuge \o (IF v.type = "float" THEN <<".", "0">> ELSE <<>>)
        ELSE IF v.type = "int" THEN sign \o NatToStr(whole)
        ELSE sign \o NatToStr(whole) \o <<".">> \o SubSeq(three, 1, last)

TsNumbers ==
    {Value("int", <<>>, n, 0, FALSE) : n \in {0, 1, -1, 86399, 1753460716, -1753460716}}
        \cup {Value("float", <<>>, n, m, FALSE) :
                n \in {0, -1, 1753460716}, m \in {0, 500, 477}}
        \cup {Value(type, <<>>, 0, 0, TRUE) : type \in {"int", "float"}}

TsValues ==
    {StrValue(s) : s \in TsStrings} \cup TsNumbers
        \cup {NoneValue, Value("list", <<>>, 0, 0, FALSE), Value("list", <<>>, 1, 0, FALSE)}

\* the local UTC offsets: New York (winter), UTC, India
TzOffsets == {-18000, 0, 19800}

JsonIdle ==
    /\ result_text = Arg("dict", <<"{", "}">>, <<>>, <<>>)
    /\ pc = "idle"
    /\ result_str = <<>>
    /\ idx = 0
    /\ brace_count = 0
    /\ in_string = FALSE
    /\ escape_next = FALSE
    /\ end_idx = -1
    /\ ret = NoneVal
    /\ loads_calls = 0
    /\ rounds = 0
    /\ raw_ret = [set |-> FALSE, val |-> NoneVal]
    /\ calc_ret = NotCalled
    /\ blocker_ret = NotCalled

InitTs ==
    /\ timestamp \in TsValues
    /\ tz \in TzOffsets
    /\ ts_pc = "start"
    /\ formatted = <<>>
    /\ reformatted = <<>>
    /\ token_only = <<>>
    /\ from_decimal = <<>>
    /\ JsonIdle
    /\ WithinIdle
    /\ MetricsIdle
    /\ BugIdle

\* formatted = format_timestamp(timestamp)
Format ==
    /\ ts_pc = "start"
    /\ formatted' = FormatTimestamp(timestamp, tz)
    /\ ts_pc' = "formatted"
    /\ UNCHANGED <<TsFrame, timestamp, tz, reformatted, token_only,
                   from_decimal>>

\* reformatted = format_timestamp(formatted)
Reformat ==
    /\ ts_pc = "formatted"
    /\ reformatted' = FormatTimestamp(StrValue(formatted), tz)
    /\ ts_pc' = "reformatted"
    /\ UNCHANGED <<TsFrame, timestamp, tz, formatted, token_only,
                   from_decimal>>

\* token_only = format_timestamp(the first whitespace-delimited token of timestamp)
FormatFirstToken ==
    /\ ts_pc = "formatted"
    /\ timestamp.type = "str"
    /\ FirstToken(timestamp.s) # <<>>
    /\ token_only' = FormatTimestamp(StrValue(FirstToken(timestamp.s)), tz)
    /\ ts_pc' = "token"
    /\ UNCHANGED <<TsFrame, timestamp, tz, formatted, reformatted,
                   from_decimal>>

\* from_decimal = format_timestamp(str(timestamp)) for a number
FormatDecimal ==
    /\ ts_pc = "formatted"
    /\ timestamp.type \in {"int", "float"}
    /\ from_decimal' = FormatTimestamp(StrValue(PyStr(timestamp)), tz)
    /\ ts_pc' = "decimal"
    /\ UNCHANGED <<TsFrame, timestamp, tz, formatted, reformatted,
                   token_only>>

NextTs ==
    \/ Format
    \/ Reformat
    \/ FormatFirstToken
    \/ FormatDecimal

SpecTs == InitTs /\ [][NextTs]_vars

(***************************************************************************)
(* Properties of extract_json_from_result.                                 *)
(***************************************************************************)
\* s[1..k]
Prefix(s, k) == SubSeq(s, 1, k)

\* s is a well-formed JSON text whose value is an object
IsObjectText(s) == JsonLoads(s).ok /\ IsDict(JsonLoads(s).val)

\* The brace scan, stated without its flags.  A quote outside a string opens
\* one; a quote inside a string closes it unless the run of backslashes just
\* before it is odd.
RECURSIVE BackslashRun(_, _)
BackslashRun(s, p) ==
    IF p > 1 /\ s[p - 1] = "\\" THEN 1 + BackslashRun(s, p - 1) ELSE 0

RECURSIVE InsideString(_, _)
\* whether position p + 1 lies inside a double-quoted string
InsideString(s, p) ==
    IF p = 0 THEN FALSE
    ELSE IF s[p] # "\"" THEN InsideString(s, p - 1)
    ELSE IF InsideString(s, p - 1) THEN BackslashRun(s, p) % 2 = 1
    ELSE TRUE

\* the braces of s[1..p] outside strings: opening minus closing
Depth(s, p) ==
    Cardinality({q \in 1..p : s[q] = "{" /\ ~InsideString(s, q)})
        - Cardinality({q \in 1..p : s[q] = "}" /\ ~InsideString(s, q)})

\* the positions of the '}' outside strings at which the depth is zero
Closers(s) ==
    {p \in 1..Len(s) : s[p] = "}" /\ ~InsideString(s, p) /\ Depth(s, p) = 0}

\* the position of the '}' that first returns the depth to zero, or -1
MatchingEnd(s) ==
    IF Closers(s) = {} THEN -1
    ELSE CHOOSE p \in Closers(s) : \A q \in Closers(s) : p <= q

\* C1: for every well-formed JSON object text s and every trailing text t,
\* extract_json_from_result(s + t) returns json.loads(s).
C1_TrailingTextTolerated ==
    (pc = "done" /\ result_text.kind = "str") =>
        \A k \in 1..Len(result_text.text) :
            IsObjectText(Prefix(result_text.text, k)) =>
                ret = JsonLoads(Prefix(result_text.text, k)).val

\* an object followed by text that is not whitespace was recovered by the scan
C1_Witness ==
    /\ pc = "done"
    /\ result_text.kind = "str"
    /\ end_idx # -1
    /\ end_idx < Len(result_str)
    /\ IsObjectText(Prefix(result_str, end_idx))
    /\ ret = JsonLoads(Prefix(result_str, end_idx)).val

\* C2: the scan ends just after the '}' that returns the depth to zero, where
\* braces inside a string do not count and a quote after an unconsumed
\* backslash does not end the string; while it runs, its depth and string
\* flag are those of the text read so far.
C2_ScanFindsMatchingBrace ==
    /\ pc = "slice" => end_idx = MatchingEnd(result_str)
    /\ pc = "scan" =>
        /\ brace_count = Depth(result_str, idx - 1)
        /\ in_string = InsideString(result_str, idx - 1)

\* the scan passed a '}' inside a string and a quote that a backslash escaped
C2_Witness ==
    /\ pc = "slice"
    /\ end_idx # -1
    /\ \E p \in 1..end_idx : result_str[p] = "}" /\ InsideString(result_str, p)
    /\ \E p \in 2..end_idx :
          /\ result_str[p] = "\""
          /\ result_str[p - 1] = "\\"
          /\ InsideString(result_str, p - 1)
          /\ InsideString(result_str, p)
    /\ \E p \in 3..end_idx :
          /\ result_str[p] = "\""
          /\ result_str[p - 1] = "\\"
          /\ result_str[p - 2] = "\\"
          /\ InsideString(result_str, p - 1)
          /\ ~InsideString(result_str, p)

\* C3: for every well-formed JSON text s, extract_json_from_result(s) is
\* json.loads(s).
C3_WellFormedParsesAsJsonLoads ==
    (pc = "done" /\ result_text.kind = "str" /\ JsonLoads(result_text.text).ok) =>
        ret = JsonLoads(result_text.text).val

\* an array or a scalar between whitespace was returned as json.loads gives it
C3_Witness ==
    /\ pc = "done"
    /\ result_text.kind = "str"
    /\ JsonLoads(result_text.text).ok
    /\ result_text.text[1] \in JsonWhitespace
    /\ result_text.text[Len(result_text.text)] \in JsonWhitespace
    /\ ~IsDict(ret)
    /\ ret = JsonLoads(result_text.text).val

\* s starts with '{' and its balanced prefix, if any, is not JSON
NoObjectPrefix(s) ==
    StartsWith(s, <<"{">>) =>
        \/ MatchingEnd(s) = -1
        \/ ~JsonLoads(Prefix(s, MatchingEnd(s))).ok

\* no step of the extractor's contract recovers JSON from the string x
NotRecoverable(x) ==
    LET s == PyStrip(x) IN
    IF StartsWith(s, FenceMark)
    THEN /\ ~JsonLoads(FenceContent(s)).ok
         /\ ~JsonLoads(PyStrip(FenceContent(s))).ok
         /\ NoObjectPrefix(PyStrip(FenceContent(s)))
    ELSE /\ ~JsonLoads(s).ok
         /\ NoObjectPrefix(s)

\* C4: for a string from which no JSON can be recovered,
\* extract_json_from_result returns None, and it never raises.
C4_NoJsonGivesNone ==
    /\ pc # "raised"
    /\ (pc = "done" /\ result_text.kind = "str" /\ NotRecoverable(result_text.text))
          => ret = NoneVal

\* a '{'-prefixed text whose balanced prefix is not JSON gave None
C4_Witness ==
    /\ pc = "done"
    /\ result_text.kind = "str"
    /\ NotRecoverable(result_text.text)
    /\ end_idx # -1
    /\ ret = NoneVal

\* C5: a dict argument is returned as it is, without any parsing; so is the
\* dict result of a call when it is passed in again.
C5_DictReturnedUnchanged ==
    (pc = "done" /\ result_text.kind = "dict") =>
        /\ ret = result_text.val
        /\ loads_calls = 0

\* the dict parsed from a string was passed in again and came back
C5_Witness ==
    /\ pc = "done"
    /\ rounds = 1
    /\ result_text.kind = "dict"
    /\ Len(ret) > 2
    /\ ret = result_text.val


(***************************************************************************)
(* Properties of format_timestamp.                                         *)
(***************************************************************************)
\* s has the form "YYYY-MM-DD HH:MM:SS"
IsCanonical(s) ==
    /\ Len(s) = 19
    /\ s[5] = "-" /\ s[8] = "-" /\ s[11] = " " /\ s[14] = ":" /\ s[17] = ":"
    /\ \A k \in (1..19) \ {5, 8, 11, 14, 17} : IsDigit(s[k])

\* s is an integer literal: digits after an optional minus sign
IsIntegerLiteral(s) ==
    LET a == IF s # <<>> /\ s[1] = "-" THEN 2 ELSE 1 IN
    a <= Len(s) /\ DigitsEnd(s, a) = Len(s) + 1

\* s is a float literal within the calendar's range
IsEpochToken(s) == PyFloat(s).ok /\ ~PyFloat(s).huge

\* s is an epoch token, one space and an integer suffix
IsEpochWithSuffix(s) ==
    \E k \in 1..Len(s) :
        /\ s[k] = " "
        /\ IsEpochToken(SubSeq(s, 1, k - 1))
        /\ IsIntegerLiteral(SubSeq(s, k + 1, Len(s)))

\* C6: format_timestamp is idempotent: formatting its own result returns it
\* unchanged.
C6_FormatIdempotent ==
    ts_pc = "reformatted" => reformatted = formatted

\* an epoch string was rendered, and the rendering formatted again
C6_Witness ==
    /\ ts_pc = "reformatted"
    /\ timestamp.type = "str"
    /\ IsEpochToken(FirstToken(timestamp.s))
    /\ IsCanonical(formatted)
    /\ formatted # timestamp.s
    /\ reformatted = formatted

\* v is a non-empty string other than "None", not taken as already formatted,
\* whose first whitespace-delimited token is not a float literal
TokenNotFloat(v) ==
    /\ v.type = "str"
    /\ v.s # <<>>
    /\ v.s # NoneLiteral
    /\ ~(Contains(v.s, "-") /\ Len(v.s) > 10)
    /\ FirstToken(v.s) # <<>>
    /\ ~PyFloat(FirstToken(v.s)).ok

C8_SuffixIgnored ==
    (ts_pc = "token" /\ IsEpochWithSuffix(timestamp.s)) => formatted = token_only

\* C9 as claimed: for every int or float n within the calendar's range,
\* including 0, format_timestamp(n) is the rendering "YYYY-MM-DD HH:MM:SS",
\* the same string as format_timestamp(str(n)).
C9_NumberIsEpoch ==
    (ts_pc = "decimal" /\ ~timestamp.huge) =>
        /\ IsCanonical(formatted)
        /\ formatted = from_decimal

\* C10: format_timestamp returns "Not Set" for None, for the empty string and
\* for the string "None".
C10_NotSet ==
    (/\ ts_pc # "start"
     /\ \/ timestamp.type = "NoneType"
        \/ timestamp.type = "str" /\ timestamp.s \in {<<>>, NoneLiteral})
        => formatted = NotSet

\* the string "None" was formatted
C10_Witness ==
    /\ ts_pc = "formatted"
    /\ timestamp = StrValue(NoneLiteral)
    /\ formatted = NotSet


(***************************************************************************)
(* is_timestamp_within_days (src/helper_func.py).                          *)
(*                                                                         *)
(* A naive datetime is the number of seconds its wall clock reading lies   *)
(* after 1970-01-01 00:00:00; an instant is a number of seconds since the  *)
(* epoch.  Time is counted in whole seconds: a fraction of a second in an  *)
(* argument is dropped (the cutoff is a whole second, so the comparison    *)
(* is that of the floors).                                                 *)
(***************************************************************************)
\* the number from 1970-01-01 of the day y-m-d
DaysFromCivil(y, m, d) ==
    LET yy  == IF m <= 2 THEN y - 1 ELSE y
        era == yy \div 400
        yoe == yy - era * 400
        mp  == IF m > 2 THEN m - 3 ELSE m + 9
        doy == (153 * mp + 2) \div 5 + d - 1
        doe == yoe * 365 + yoe \div 4 - yoe \div 100 + doy
    IN  era * 146097 + doe - 719468

DaysInMonth(y, m) ==
    IF m = 2
    THEN (IF y % 4 = 0 /\ (y % 100 # 0 \/ y % 400 = 0) THEN 29 ELSE 28)
    ELSE IF m \in {4, 6, 9, 11} THEN 30 ELSE 31

RECURSIVE ReplaceZ(_, _)
\* ts.replace('Z', '+00:00'), from position p on
ReplaceZ(s, p) ==
    IF p > Len(s) THEN <<>>
    ELSE (IF s[p] = "Z" THEN <<"+", "0", "0", ":", "0", "0">> ELSE <<s[p]>>)
           \o ReplaceZ(s, p + 1)

\* whether s[p..p+1] are two digits
TwoDigits(s, p) == p + 1 <= Len(s) /\ IsDigit(s[p]) /\ IsDigit(s[p + 1])
\* the number s[p..q] writes
Number(s, p, q) == DigitsValue(SubSeq(s, p, q), q - p + 1)

IsoFail == [ok |-> FALSE, wall |-> 0, aware |-> FALSE, offset |-> 0]

\* the UTC offset written from position p to the end of s: "" or (+|-)HH:MM
IsoOffset(s, p) ==
    IF p = Len(s) + 1 THEN [ok |-> TRUE, aware |-> FALSE, offset |-> 0]
    ELSE IF /\ Len(s) = p + 5
            /\ s[p] \in {"+", "-"}
            /\ TwoDigits(s, p + 1) /\ s[p + 3] = ":" /\ TwoDigits(s, p + 4)
            /\ Number(s, p + 1, p + 2) < 24 /\ Number(s, p + 4, p + 5) < 60
    THEN [ok |-> TRUE, aware |-> TRUE,
          offset |-> (IF s[p] = "-" THEN -1 ELSE 1)
                       * (3600 * Number(s, p + 1, p + 2) + 60 * Number(s, p + 4, p + 5))]
    ELSE [ok |-> FALSE, aware |-> FALSE, offset |-> 0]

\* datetime.fromisoformat(s) for the extended format
\* YYYY-MM-DD[*HH:MM[:SS[.f+]][(+|-)HH:MM]]; ok is FALSE where it raises
FromIsoFormat(s) ==
    IF ~(/\ Len(s) >= 10
         /\ \A k \in {1, 2, 3, 4, 6, 7, 9, 10} : IsDigit(s[k])
         /\ s[5] = "-" /\ s[8] = "-")
    THEN IsoFail
    ELSE
    LET y    == Number(s, 1, 4)
        m    == Number(s, 6, 7)
        d    == Number(s, 9, 10)
        date == y >= 1 /\ m \in 1..12 /\ d >= 1 /\ d <= DaysInMonth(y, m)
        base == DaysFromCivil(y, m, d) * 86400
    IN  IF ~date THEN IsoFail
        ELSE IF Len(s) = 10 THEN [ok |-> TRUE, wall |-> base, aware |-> FALSE, offset |-> 0]
        ELSE IF ~(TwoDigits(s, 12) /\ Len(s) >= 16 /\ s[14] = ":" /\ TwoDigits(s, 15))
        THEN IsoFail
        ELSE
        LET hh     == Number(s, 12, 13)
            mm     == Number(s, 15, 16)
            hasSec == Len(s) >= 19 /\ s[17] = ":" /\ TwoDigits(s, 18)
            ss     == IF hasSec THEN Number(s, 18, 19) ELSE 0
            afterS == IF hasSec THEN 20 ELSE 17
            hasFr  == hasSec /\ Len(s) >= 21 /\ s[20] = "." /\ IsDigit(s[21])
            afterF == IF hasFr THEN DigitsEnd(s, 21) ELSE afterS
            off    == IsoOffset(s, afterF)
        IN  IF hh < 24 /\ mm < 60 /\ ss < 60 /\ off.ok
            THEN [ok |-> TRUE, wall |-> base + 3600 * hh + 60 * mm + ss,
                  aware |-> off.aware, offset |-> off.offset]
            ELSE IsoFail

\* the test that sends a string to the ISO 8601 parser
LooksIso(ts) ==
    \/ Contains(ts, "T") /\ Contains(ts, "-")
    \/ Contains(ts, "-") /\ Contains(ts, ":")

\* lines 133-163: the naive datetime dt the argument is normalised to, as
\* [kind, wall]: kind "dt" with the wall clock reading, "false" where the code
\* returns False, "raise" where an exception reaches the outer handler
WithinDatetime(v, offset) ==
    IF v.type = "str" THEN
        LET ts  == PyStrip(v.s)
            iso == IF LooksIso(ts) THEN FromIsoFormat(ReplaceZ(ts, 1)) ELSE IsoFail
            tok == FirstToken(ts)
            f   == PyFloat(tok)
        IN  IF iso.ok
            THEN [kind |-> "dt",
                  wall |-> IF iso.aware THEN iso.wall - iso.offset ELSE iso.wall]
            ELSE IF tok = <<>> THEN [kind |-> "false", wall |-> 0]
            ELSE IF ~f.ok \/ f.huge THEN [kind |-> "false", wall |-> 0]
            ELSE [kind |-> "dt", wall |-> f.n + offset]
    ELSE IF v.type \in {"int", "float"} THEN
        IF v.huge THEN [kind |-> "raise", wall |-> 0]
        ELSE [kind |-> "dt", wall |-> v.n + offset]
    ELSE [kind |-> "false", wall |-> 0]

\* is_timestamp_within_days without the outer try: the exception propagates
IsTimestampWithinDaysUnguarded(v, d, nw, offset) ==
    IF ~Truthy(v) THEN "False"
    ELSE LET dt == WithinDatetime(v, offset) IN
         IF dt.kind = "raise" THEN "raised"
         ELSE IF dt.kind = "false" THEN "False"
         ELSE IF dt.wall >= (nw + offset) - d * 86400 THEN "True" ELSE "False"

\* is_timestamp_within_days(timestamp, days) when datetime.now() is the instant
\* nw and the local zone is at offset: "True" or "False" ("raised" if it raised)
IsTimestampWithinDays(v, d, nw, offset) ==
    IF ~Truthy(v) THEN "False"
    ELSE LET dt == WithinDatetime(v, offset) IN
         IF dt.kind = "raise" THEN "False"
         ELSE IF dt.kind = "false" THEN "False"
         ELSE IF dt.wall >= (nw + offset) - d * 86400 THEN "True" ELSE "False"

(***************************************************************************)
(* The arguments is_timestamp_within_days is applied to.                   *)
(***************************************************************************)
\* 2025-07-25 16:25:16 UTC, and 2025-03-01 00:00:30 UTC
NowInstants == {1753460716, 1740787230}
DayCounts == {0, 1, 14}
\* how far from the cutoff the argument lies, in seconds
Deltas == {-21600, -1, 0, 1, 21600}

\* .477000000
FractionText ==
    <<".", "4", "7", "7", "0", "0", "0", "0", "0", "0">>
\* .866000
IsoFractionText ==
    <<".", "8", "6", "6", "0", "0", "0">>
\*  1440
SuffixText ==
    <<" ", "1", "4", "4", "0">>
\*  -1440
NegativeSuffixText ==
    <<" ", "-", "1", "4", "4", "0">>
\* 1753460716 -1:
TsEpochOddSuffix ==
    <<"1", "7", "5", "3", "4", "6", "0", "7", "1", "6", " ", "-", "1", ":">>
\* 2025-13-07T00:00:00
TsIsoBadMonth ==
    <<"2", "0", "2", "5", "-", "1", "3", "-", "0", "7", "T", "0", "0", ":",
      "0", "0", ":", "0", "0">>
\* 2025-02-29T10:00:00Z
TsIsoBadDay ==
    <<"2", "0", "2", "5", "-", "0", "2", "-", "2", "9", "T", "1", "0", ":",
      "0", "0", ":", "0", "0", "Z">>
\*  2025-08-07T14:16:52+00:00 (with the blanks strip() removes)
TsIsoPadded ==
    <<" ", "2", "0", "2", "5", "-", "0", "8", "-", "0", "7", "T", "1", "4",
      ":", "1", "6", ":", "5", "2", "+", "0", "0", ":", "0", "0", "\n">>

\* (+|-)HH:MM for a UTC offset in seconds
OffsetText(off) ==
    LET a == IF off < 0 THEN -off ELSE off IN
    (IF off < 0 THEN <<"-">> ELSE <<"+">>)
        \o Pad(NatToStr(a \div 3600), 2) \o <<":">> \o Pad(NatToStr((a % 3600) \div 60), 2)

\* YYYY-MM-DDTHH:MM:SS, the wall clock of instant t in the zone at off
IsoText(t, off) == [Strftime(t, off) EXCEPT ![11] = "T"]

\* the representations of the instant t, where the local zone is at offset
Representations(t, offset) ==
    {Value("int", <<>>, t, 0, FALSE), Value("float", <<>>, t, 477, FALSE)}
      \cup {StrValue(s) : s \in
             {NatToStr(t), NatToStr(t) \o FractionText,
              NatToStr(t) \o SuffixText, NatToStr(t) \o FractionText \o SuffixText,
              NatToStr(t) \o NegativeSuffixText,
              IsoText(t, 0) \o <<"Z">>,
              IsoText(t, 0) \o IsoFractionText \o OffsetText(0),
              IsoText(t, 19800) \o OffsetText(19800),
              IsoText(t, -18000) \o OffsetText(-18000),
              IsoText(t, offset),
              Strftime(t, offset)}}

Unknown(v) == [known |-> FALSE, t |-> 0, value |-> v]
Known(t, v) == [known |-> TRUE, t |-> t, value |-> v]

\* the arguments, each with the instant it denotes where the model knows it
WithinArguments(nw, d, offset) ==
    UNION {{Known(t, v) : v \in Representations(t, offset)} :
             t \in {nw} \cup {nw - d * 86400 + delta : delta \in Deltas}}
      \cup {Unknown(v) : v \in TsValues}
      \cup {Unknown(StrValue(s)) :
              s \in {TsEpochOddSuffix, TsIsoBadMonth, TsIsoBadDay, TsIsoPadded}}

InitWithin ==
    /\ now \in NowInstants
    /\ days \in DayCounts
    /\ tz \in TzOffsets
    /\ \E a \in WithinArguments(now, days, tz) :
         /\ instant = [known |-> a.known, t |-> a.t]
         /\ timestamp = a.value
    /\ within = "unset"
    /\ within_epoch = "unset"
    /\ wd_pc = "start"
    /\ ts_pc = "idle"
    /\ formatted = <<>>
    /\ reformatted = <<>>
    /\ token_only = <<>>
    /\ from_decimal = <<>>
    /\ JsonIdle
    /\ MetricsIdle
    /\ BugIdle

\* within = is_timestamp_within_days(timestamp, days)
CheckWithin ==
    /\ wd_pc = "start"
    /\ within' = IsTimestampWithinDays(timestamp, days, now, tz)
    /\ wd_pc' = "done"
    /\ UNCHANGED <<json_vars, ts_vars, cm_vars, bug_vars, fix_vars, days, now, instant, within_epoch>>

\* within_epoch = is_timestamp_within_days(str(t), days) for the instant t
\* that timestamp denotes
CheckWithinEpoch ==
    /\ wd_pc = "done"
    /\ instant.known
    /\ within_epoch = "unset"
    /\ within_epoch' = IsTimestampWithinDays(StrValue(NatToStr(instant.t)), days, now, tz)
    /\ UNCHANGED <<json_vars, ts_vars, cm_vars, bug_vars, fix_vars, days, now, instant, within, wd_pc>>

NextWithin ==
    \/ CheckWithin
    \/ CheckWithinEpoch

SpecWithin == InitWithin /\ [][NextWithin]_vars

(***************************************************************************)
(* C11: for an instant t in any supported representation and a day count  *)
(* d >= 0, is_timestamp_within_days(t, d) is False when t lies more than d *)
(* days before the current time, True when t is the current time, and      *)
(* True when t is exactly d days before the current time (the cutoff is    *)
(* inclusive).                                                             *)
(***************************************************************************)
C11_WithinWindow ==
    (wd_pc = "done" /\ instant.known) =>
        /\ instant.t < now - days * 86400 => within = "False"
        /\ instant.t = now => within = "True"
        /\ instant.t = now - days * 86400 => within = "True"

\* a value is_timestamp_within_days cannot read as an instant: None, a falsy
\* value, a string that is neither parseable ISO 8601 nor led by a float
\* token, a value that is neither a string nor a number
NotAnInstant(v) ==
    \/ ~Truthy(v)
    \/ v.type \notin {"str", "int", "float"}
    \/ /\ v.type = "str"
       /\ ~FromIsoFormat(ReplaceZ(PyStrip(v.s), 1)).ok
       /\ ~PyFloat(FirstToken(PyStrip(v.s))).ok

(***************************************************************************)
(* C12: is_timestamp_within_days never raises, and returns False for None, *)
(* for every falsy value, for every string that is neither parseable       *)
(* ISO 8601 nor led by a float token, and for every value that is neither  *)
(* a string nor a number.                                                  *)
(***************************************************************************)
C12_UnreadableGivesFalse ==
    wd_pc = "done" =>
        /\ within \in {"True", "False"}
        /\ NotAnInstant(timestamp) => within = "False"

\* a number beyond the calendar's range made datetime.fromtimestamp raise, and
\* the call returned False all the same
C12_Witness ==
    /\ wd_pc = "done"
    /\ timestamp.type \in {"int", "float"}
    /\ timestamp.huge
    /\ WithinDatetime(timestamp, tz).kind = "raise"
    /\ within = "False"


(***************************************************************************)
(* calculate_item_metrics (src/helper_func.py).                            *)
(*                                                                         *)
(* An item is a function from the keys it holds to values; the metrics     *)
(* dict is a function from metric names; an entry of the three item lists  *)
(* is a record.  Raw field values are values as above, formatted dates     *)
(* are strings.                                                            *)
(***************************************************************************)
\* Unknown
UnknownText ==
    <<"U", "n", "k", "n", "o", "w", "n">>
\* Invalid
InvalidText ==
    <<"I", "n", "v", "a", "l", "i", "d">>
\* No summary
NoSummary ==
    <<"N", "o", " ", "s", "u", "m", "m", "a", "r", "y">>
\* bug
BugType ==
    <<"b", "u", "g">>

UpperLetters ==
    <<"A", "B", "C", "D", "E", "F", "G", "H", "I", "J", "K", "L", "M", "N",
      "O", "P", "Q", "R", "S", "T", "U", "V", "W", "X", "Y", "Z">>
LowerLetters ==
    <<"a", "b", "c", "d", "e", "f", "g", "h", "i", "j", "k", "l", "m", "n",
      "o", "p", "q", "r", "s", "t", "u", "v", "w", "x", "y", "z">>
\* s.lower()
Lower(s) ==
    [k \in 1..Len(s) |->
        IF \E u \in 1..26 : UpperLetters[u] = s[k]
        THEN LowerLetters[CHOOSE u \in 1..26 : UpperLetters[u] = s[k]]
        ELSE s[k]]

\* item_type.lower() == "bug"
IsBugType(type) == Lower(type) = BugType

BugKeys ==
    {"total_blocker_bugs", "total_critical_bugs", "total_blocker_bugs_resolved",
     "total_critical_bugs_resolved", "blocker_bugs_recent_activity",
     "critical_bugs_recent_activity", "blocker_bugs_created_recently",
     "critical_bugs_created_recently", "blocker_bugs_resolved_recently",
     "critical_bugs_resolved_recently"}
GenericCountKeys ==
    {"total_items", "total_resolved_items", "items_recent_activity",
     "items_created_recently", "items_resolved_recently"}
GenericKeys == GenericCountKeys \cup {"priority_breakdown"}

\* the metrics dict of lines 190-211, with the test of item_type case-sensitive
InitialMetricsCaseSensitive(type) ==
    IF type = BugType THEN [k \in BugKeys |-> 0]
    ELSE [k \in GenericKeys |-> IF k = "priority_breakdown" THEN <<>> ELSE 0]

\* the metrics dict of lines 190-211
InitialMetrics(type) ==
    IF IsBugType(type) THEN [k \in BugKeys |-> 0]
    ELSE [k \in GenericKeys |-> IF k = "priority_breakdown" THEN <<>> ELSE 0]

\* item.get(k, default) where a missing key gives None
GetNone(item, k, default) ==
    IF k \in DOMAIN item THEN item[k] ELSE NoneValue

\* item.get(k, default)
Get(item, k, default) ==
    IF k \in DOMAIN item THEN item[k] ELSE default

\* is_resolved(resolution_date), as a truth value
IsResolved(v) ==
    /\ Truthy(v)
    /\ ~(v.type = "str" /\ v.s = UnknownText)
    /\ ~(v.type = "str" /\ v.s = InvalidText)

\* m with m[k] one higher when cond holds
Inc(m, k, cond) == IF cond THEN [m EXCEPT ![k] = @ + 1] ELSE m

Blocker == StrValue(<<"1">>)
Critical == StrValue(<<"2">>)

\* the bug counters with every bug that is no blocker taken as critical
BugMetricsTwoBuckets(m, priority, resolved, created_recently, resolved_recently) ==
    LET is_blocker  == priority = Blocker
        is_critical == priority # Blocker
        m1 == Inc(m, "total_blocker_bugs", is_blocker)
        m2 == Inc(m1, "total_blocker_bugs_resolved", is_blocker /\ resolved)
        m3 == Inc(m2, "total_critical_bugs", is_critical)
        m4 == Inc(m3, "total_critical_bugs_resolved", is_critical /\ resolved)
        m5 == Inc(m4, "blocker_bugs_recent_activity", is_blocker)
        m6 == Inc(m5, "critical_bugs_recent_activity", is_critical)
        m7 == Inc(m6, "blocker_bugs_created_recently", is_blocker /\ created_recently)
        m8 == Inc(m7, "critical_bugs_created_recently", is_critical /\ created_recently)
        m9 == Inc(m8, "blocker_bugs_resolved_recently", is_blocker /\ resolved_recently)
    IN  Inc(m9, "critical_bugs_resolved_recently", is_critical /\ resolved_recently)

\* the bug counters with the recent-activity count taken for every priority
BugMetricsActivityForAll(m, priority, resolved, created_recently, resolved_recently) ==
    LET is_blocker  == priority = Blocker
        is_critical == priority = Critical
        m1 == Inc(m, "total_blocker_bugs", is_blocker)
        m2 == Inc(m1, "total_blocker_bugs_resolved", is_blocker /\ resolved)
        m3 == Inc(m2, "total_critical_bugs", is_critical)
        m4 == Inc(m3, "total_critical_bugs_resolved", is_critical /\ resolved)
        m5 == Inc(m4, "blocker_bugs_recent_activity", is_blocker)
        m6 == Inc(m5, "critical_bugs_recent_activity", ~is_blocker)
        m7 == Inc(m6, "blocker_bugs_created_recently", is_blocker /\ created_recently)
        m8 == Inc(m7, "critical_bugs_created_recently", is_critical /\ created_recently)
        m9 == Inc(m8, "blocker_bugs_resolved_recently", is_blocker /\ resolved_recently)
    IN  Inc(m9, "critical_bugs_resolved_recently", is_critical /\ resolved_recently)

\* the item_type "bug" branches of lines 226-238, 263-269, 283-287, 301-305
BugMetrics(m, priority, resolved, created_recently, resolved_recently) ==
    LET is_blocker  == priority = Blocker
        is_critical == priority = Critical
        m1 == Inc(m, "total_blocker_bugs", is_blocker)
        m2 == Inc(m1, "total_blocker_bugs_resolved", is_blocker /\ resolved)
        m3 == Inc(m2, "total_critical_bugs", is_critical)
        m4 == Inc(m3, "total_critical_bugs_resolved", is_critical /\ resolved)
        m5 == Inc(m4, "blocker_bugs_recent_activity", is_blocker)
        m6 == Inc(m5, "critical_bugs_recent_activity", is_critical)
        m7 == Inc(m6, "blocker_bugs_created_recently", is_blocker /\ created_recently)
        m8 == Inc(m7, "critical_bugs_created_recently", is_critical /\ created_recently)
        m9 == Inc(m8, "blocker_bugs_resolved_recently", is_blocker /\ resolved_recently)
    IN  Inc(m9, "critical_bugs_resolved_recently", is_critical /\ resolved_recently)

\* the generic counters with every priority's count set to 1, never added to
GenericMetricsFlatBreakdown(m, priority, resolved, created_recently, resolved_recently) ==
    LET m1 == Inc(m, "total_items", TRUE)
        m2 == Inc(m1, "total_resolved_items", resolved)
        pb == m2["priority_breakdown"]
        m3 == [m2 EXCEPT !["priority_breakdown"] =
                 [q \in DOMAIN pb \cup {priority} |-> 1]]
        m4 == Inc(m3, "items_recent_activity", TRUE)
        m5 == Inc(m4, "items_created_recently", created_recently)
    IN  Inc(m5, "items_resolved_recently", resolved_recently)

\* the else branches of lines 239-249, 270-271, 288-289, 306-307
GenericMetrics(m, priority, resolved, created_recently, resolved_recently) ==
    LET m1 == Inc(m, "total_items", TRUE)
        m2 == Inc(m1, "total_resolved_items", resolved)
        pb == m2["priority_breakdown"]
        m3 == [m2 EXCEPT !["priority_breakdown"] =
                 [q \in DOMAIN pb \cup {priority} |->
                    IF q = priority
                    THEN (IF priority \in DOMAIN pb THEN pb[priority] + 1 ELSE 1)
                    ELSE pb[q]]]
        m4 == Inc(m3, "items_recent_activity", TRUE)
        m5 == Inc(m4, "items_created_recently", created_recently)
    IN  Inc(m5, "items_resolved_recently", resolved_recently)

\* the dict appended to recent_activity_items (lines 252-260)
ActivityEntry(item, offset) ==
    [key             |-> Get(item, "key", StrValue(UnknownText)),
     summary         |-> Get(item, "summary", StrValue(NoSummary)),
     priority        |-> Get(item, "priority", StrValue(UnknownText)),
     status          |-> Get(item, "status", StrValue(UnknownText)),
     updated         |-> FormatTimestamp(Get(item, "updated", StrValue(<<>>)), offset),
     created         |-> FormatTimestamp(Get(item, "created", StrValue(<<>>)), offset),
     resolution_date |-> FormatTimestamp(Get(item, "resolution_date", StrValue(<<>>)), offset)]

\* the dict appended to recently_created_items (lines 275-280)
CreatedEntry(item, offset) ==
    [key      |-> Get(item, "key", StrValue(UnknownText)),
     summary  |-> Get(item, "summary", StrValue(NoSummary)),
     priority |-> Get(item, "priority", StrValue(UnknownText)),
     created  |-> FormatTimestamp(Get(item, "created", StrValue(<<>>)), offset)]

\* the dict appended to recently_resolved_items (lines 293-298)
ResolvedEntry(item, offset) ==
    [key             |-> Get(item, "key", StrValue(UnknownText)),
     summary         |-> Get(item, "summary", StrValue(NoSummary)),
     priority        |-> Get(item, "priority", StrValue(UnknownText)),
     resolution_date |-> FormatTimestamp(Get(item, "resolution_date", StrValue(<<>>)), offset)]

\* the loop body with the entry of recent_activity_items kept for the
\* recently created items only
ProcessOneActivityFiltered(acc, item, type, d, nw, offset) ==
    LET priority        == Get(item, "priority", StrValue(UnknownText))
        created         == Get(item, "created", StrValue(<<>>))
        resolution_date == Get(item, "resolution_date", StrValue(<<>>))
        resolved        == IsResolved(resolution_date)
        created_r       == IsTimestampWithinDays(created, d, nw, offset) = "True"
        resolved_r      == resolved
                             /\ IsTimestampWithinDays(resolution_date, d, nw, offset) = "True"
    IN  [metrics |->
            IF IsBugType(type)
            THEN BugMetrics(acc.metrics, priority, resolved, created_r, resolved_r)
            ELSE GenericMetrics(acc.metrics, priority, resolved, created_r, resolved_r),
         recent_activity_items |->
            IF created_r
            THEN Append(acc.recent_activity_items, ActivityEntry(item, offset))
            ELSE acc.recent_activity_items,
         recently_created_items |->
            IF created_r
            THEN Append(acc.recently_created_items, CreatedEntry(item, offset))
            ELSE acc.recently_created_items,
         recently_resolved_items |->
            IF resolved_r
            THEN Append(acc.recently_resolved_items, ResolvedEntry(item, offset))
            ELSE acc.recently_resolved_items]

\* one iteration of the loop of lines 217-307 on item: the new values of
\* metrics and of the three lists, from their values acc
ProcessOne(acc, item, type, d, nw, offset) ==
    LET priority        == Get(item, "priority", StrValue(UnknownText))
        created         == Get(item, "created", StrValue(<<>>))
        resolution_date == Get(item, "resolution_date", StrValue(<<>>))
        resolved        == IsResolved(resolution_date)
        created_r       == IsTimestampWithinDays(created, d, nw, offset) = "True"
        resolved_r      == resolved
                             /\ IsTimestampWithinDays(resolution_date, d, nw, offset) = "True"
    IN  [metrics |->
            IF IsBugType(type)
            THEN BugMetrics(acc.metrics, priority, resolved, created_r, resolved_r)
            ELSE GenericMetrics(acc.metrics, priority, resolved, created_r, resolved_r),
         recent_activity_items |->
            Append(acc.recent_activity_items, ActivityEntry(item, offset)),
         recently_created_items |->
            IF created_r
            THEN Append(acc.recently_created_items, CreatedEntry(item, offset))
            ELSE acc.recently_created_items,
         recently_resolved_items |->
            IF resolved_r
            THEN Append(acc.recently_resolved_items, ResolvedEntry(item, offset))
            ELSE acc.recently_resolved_items]

RECURSIVE CalculateItemMetrics(_, _, _, _, _, _)
\* calculate_item_metrics(items[:k], d, type): what it returns when
\* datetime.now() is the instant nw and the local zone is at offset
CalculateItemMetrics(items, k, type, d, nw, offset) ==
    IF k = 0
    THEN [metrics |-> InitialMetrics(type),
          recent_activity_items |-> <<>>,
          recently_created_items |-> <<>>,
          recently_resolved_items |-> <<>>]
    ELSE ProcessOne(CalculateItemMetrics(items, k - 1, type, d, nw, offset),
                    items[k], type, d, nw, offset)

\* the locals the loop updates
Accumulators ==
    [metrics |-> metrics,
     recent_activity_items |-> recent_activity_items,
     recently_created_items |-> recently_created_items,
     recently_resolved_items |-> recently_resolved_items]

\* lines 189-215: metrics and the three lists are initialised
StartMetrics ==
    /\ cm_pc = "start"
    /\ metrics' = InitialMetrics(item_type)
    /\ recent_activity_items' = <<>>
    /\ recently_created_items' = <<>>
    /\ recently_resolved_items' = <<>>
    /\ cm_pc' = "loop"
    /\ UNCHANGED <<json_vars, ts_vars, wd_vars, bug_vars, fix_vars, all_items, item_type, item_idx>>

\* for item in all_items: one iteration
ProcessItem ==
    /\ cm_pc = "loop"
    /\ item_idx < Len(all_items)
    /\ \E new \in {ProcessOne(Accumulators, all_items[item_idx + 1], item_type,
                              days, now, tz)} :
           /\ metrics' = new.metrics
           /\ recent_activity_items' = new.recent_activity_items
           /\ recently_created_items' = new.recently_created_items
           /\ recently_resolved_items' = new.recently_resolved_items
    /\ item_idx' = item_idx + 1
    /\ UNCHANGED <<json_vars, ts_vars, wd_vars, bug_vars, fix_vars, all_items, item_type, cm_pc>>

\* lines 309-314: the loop is over, the result is returned
ReturnMetrics ==
    /\ cm_pc = "loop"
    /\ item_idx = Len(all_items)
    /\ cm_pc' = "done"
    /\ UNCHANGED <<json_vars, ts_vars, wd_vars, bug_vars, fix_vars, all_items, item_type, item_idx,
                   metrics, recent_activity_items, recently_created_items,
                   recently_resolved_items>>

(***************************************************************************)
(* The arguments calculate_item_metrics is applied to.                     *)
(***************************************************************************)
\* longest list of items
MaxItems == 2

\* 1700000000
TsOldEpoch ==
    <<"1", "7", "0", "0", "0", "0", "0", "0", "0", "0">>

\* marks a key the item does not hold
Absent == Value("absent", <<>>, 0, 0, FALSE)
Field(k, v) == IF v = Absent THEN <<>> ELSE (k :> v)
Item(key, priority, created, resolution_date) ==
    Field("key", key) @@ Field("priority", priority) @@ Field("created", created)
        @@ Field("resolution_date", resolution_date)
IssueKey(n) == StrValue(<<"K", Digits[n + 1]>>)

\* the two records of the scenario: a resolved blocker and an open critical bug
ItemScenarioBlocker == Item(Absent, Blocker, Absent, StrValue(TsOldEpoch))
ItemScenarioCritical == Item(Absent, Critical, Absent, StrValue(<<>>))
\* a record holding every key
ItemFull ==
    Item(IssueKey(1), Blocker, StrValue(TsEpoch), StrValue(TsJira))
        @@ ("summary" :> StrValue(<<"s">>)) @@ ("status" :> StrValue(<<"6">>))
        @@ ("updated" :> StrValue(TsEpochFraction))

Items ==
    {ItemScenarioBlocker, ItemScenarioCritical, ItemFull,
     Item(IssueKey(2), Critical, StrValue(TsEpoch), Absent),
     Item(IssueKey(3), Critical, StrValue(TsOldEpoch), StrValue(TsIso)),
     Item(IssueKey(4), StrValue(<<"3">>), StrValue(TsEpoch), StrValue(TsEpoch)),
     Item(IssueKey(5), Value("int", <<>>, 1, 0, FALSE), StrValue(TsEpoch),
          StrValue(TsOldEpoch)),
     Item(IssueKey(6), Absent, Absent, Absent),
     <<>>,
     Item(IssueKey(7), Blocker, StrValue(TsOldEpoch), StrValue(NoneLiteral)),
     Item(IssueKey(8), Critical, NoneValue, StrValue(UnknownText)),
     Item(IssueKey(9), Blocker, StrValue(TsJira), StrValue(<<" ">>)),
     Item(Absent, StrValue(UnknownText), StrValue(TsProse), NoneValue)}

ItemLists == UNION {[1..n -> Items] : n \in 0..MaxItems}

\* bug, Bug, BUG, story, item
ItemTypes ==
    {BugType, <<"B", "u", "g">>, <<"B", "U", "G">>,
     <<"s", "t", "o", "r", "y">>, <<"i", "t", "e", "m">>}

\* the values of analysis_period_days
WindowDays == {14}

InitMetrics ==
    /\ all_items \in ItemLists
    /\ item_type \in ItemTypes
    /\ days \in WindowDays
    /\ now \in NowInstants
    /\ tz \in TzOffsets
    /\ item_idx = 0
    /\ metrics = <<>>
    /\ recent_activity_items = <<>>
    /\ recently_created_items = <<>>
    /\ recently_resolved_items = <<>>
    /\ cm_pc = "start"
    /\ instant = [known |-> FALSE, t |-> 0]
    /\ within = "unset"
    /\ within_epoch = "unset"
    /\ wd_pc = "idle"
    /\ timestamp = NoneValue
    /\ ts_pc = "idle"
    /\ formatted = <<>>
    /\ reformatted = <<>>
    /\ token_only = <<>>
    /\ from_decimal = <<>>
    /\ JsonIdle
    /\ BugIdle

NextMetrics ==
    \/ StartMetrics
    \/ ProcessItem
    \/ ReturnMetrics

SpecMetrics == InitMetrics /\ [][NextMetrics]_vars

(***************************************************************************)
(* The claims about calculate_item_metrics.                                *)
(***************************************************************************)
\* the loop has processed the first item_idx items
InLoop == cm_pc \in {"loop", "done"}
PriorityOf(item) == Get(item, "priority", StrValue(UnknownText))
CreatedOf(item) == Get(item, "created", StrValue(<<>>))
ResolutionOf(item) == Get(item, "resolution_date", StrValue(<<>>))
\* the number of processed items that satisfy P
CountItems(P(_)) == Cardinality({i \in 1..item_idx : P(all_items[i])})
\* the item's date d lies in the window, as is_timestamp_within_days judges it
InWindow(v) == IsTimestampWithinDays(v, days, now, tz) = "True"

\* the four counts of the bucket of priority p are those of the processed items
BucketCounts(p, total, resolved, created, resolved_recently) ==
    /\ metrics[total] = CountItems(LAMBDA it : PriorityOf(it) = p)
    /\ metrics[resolved] =
         CountItems(LAMBDA it : PriorityOf(it) = p /\ IsResolved(ResolutionOf(it)))
    /\ metrics[created] =
         CountItems(LAMBDA it : PriorityOf(it) = p /\ InWindow(CreatedOf(it)))
    /\ metrics[resolved_recently] =
         CountItems(LAMBDA it : /\ PriorityOf(it) = p
                                /\ IsResolved(ResolutionOf(it))
                                /\ InWindow(ResolutionOf(it)))

ParsedDate(f) ==
    /\ f # <<>>
    /\ f # NotSet
    /\ ~StartsWith(f, UnknownText)
    /\ ~StartsWith(f, InvalidText)

\* the number of processed items the metrics count as resolved
CountedResolved ==
    IF IsBugType(item_type)
    THEN metrics["total_blocker_bugs_resolved"] + metrics["total_critical_bugs_resolved"]
    ELSE metrics["total_resolved_items"]

(***************************************************************************)
(* C14: calculate_item_metrics counts a record as resolved if and only if  *)
(* its resolution_date, after formatting with format_timestamp, is a       *)
(* successfully parsed timestamp: non-empty and not a "Not Set",           *)
(* "Unknown" or "Invalid" result (for item_type "bug", among the records   *)
(* of the two buckets).                                                    *)
(***************************************************************************)
C14_ResolvedIffParsed ==
    InLoop =>
        CountedResolved =
            CountItems(LAMBDA it :
                /\ IsBugType(item_type) => PriorityOf(it) \in {Blocker, Critical}
                /\ ParsedDate(FormatTimestamp(ResolutionOf(it), tz)))

(***************************************************************************)
(* C15: for every input list and every item_type, after the first k        *)
(* records recent_activity_items has exactly k entries, in input order,    *)
(* the i-th carrying the key of the i-th record, whatever the record's     *)
(* priority and dates and whatever the window.                             *)
(***************************************************************************)
C15_EveryItemListed ==
    InLoop =>
        /\ Len(recent_activity_items) = item_idx
        /\ \A i \in 1..item_idx :
             recent_activity_items[i].key
                 = Get(all_items[i], "key", StrValue(UnknownText))

\* two records with different keys were listed in order, none of them created
\* or resolved within the window
C15_Witness ==
    /\ cm_pc = "done"
    /\ Len(all_items) = 2
    /\ Len(recent_activity_items) = 2
    /\ recent_activity_items[1].key = IssueKey(7)
    /\ recent_activity_items[2].key = IssueKey(8)
    /\ recently_created_items = <<>>
    /\ recently_resolved_items = <<>>

(***************************************************************************)
(* C16: for item_type "bug", processing a record whose priority is neither *)
(* "1" nor "2" leaves all ten bug counters unchanged, while the record     *)
(* still adds one entry to recent_activity_items.                          *)
(***************************************************************************)
C16_OtherPriorityLeavesCounters ==
    [][(/\ cm_pc = "loop"
        /\ item_idx' = item_idx + 1
        /\ item_type = BugType
        /\ PriorityOf(all_items[item_idx + 1]) \notin {Blocker, Critical})
       => (/\ \A k \in BugKeys : metrics'[k] = metrics[k]
           /\ DOMAIN metrics' = BugKeys
           /\ recent_activity_items'
                = Append(recent_activity_items,
                         ActivityEntry(all_items[item_idx + 1], tz)))]_vars

\* after a blocker, a bug of priority "3" created and resolved within the
\* window was processed: it is listed and the counters are those of the blocker
C16_Witness ==
    /\ InLoop
    /\ item_type = BugType
    /\ item_idx = 2
    /\ all_items[1] = ItemFull
    /\ PriorityOf(all_items[2]) = StrValue(<<"3">>)
    /\ Len(recent_activity_items) = 2
    /\ metrics["blocker_bugs_recent_activity"] = 1
    /\ metrics["critical_bugs_recent_activity"] = 0
    /\ metrics["blocker_bugs_created_recently"] = 1
    /\ metrics["critical_bugs_created_recently"] = 0

RECURSIVE SumOver(_, _)
\* the sum of f over the set S
SumOver(f, S) ==
    IF S = {} THEN 0
    ELSE LET x == CHOOSE y \in S : TRUE IN f[x] + SumOver(f, S \ {x})

\* the generic metrics are those of the processed items
GenericCounts ==
    /\ DOMAIN metrics = GenericKeys
    /\ metrics["total_items"] = item_idx
    /\ metrics["items_recent_activity"] = item_idx
    /\ metrics["total_resolved_items"]
         = CountItems(LAMBDA it : IsResolved(ResolutionOf(it)))
    /\ metrics["items_created_recently"] = Len(recently_created_items)
    /\ metrics["items_resolved_recently"] = Len(recently_resolved_items)
    /\ LET pb == metrics["priority_breakdown"] IN
         /\ DOMAIN pb = {PriorityOf(all_items[i]) : i \in 1..item_idx}
         /\ \A p \in DOMAIN pb : pb[p] = CountItems(LAMBDA it : PriorityOf(it) = p)
         /\ SumOver(pb, DOMAIN pb) = metrics["total_items"]

AllZero ==
    /\ \A k \in DOMAIN metrics \ {"priority_breakdown"} : metrics[k] = 0
    /\ "priority_breakdown" \in DOMAIN metrics
         => DOMAIN metrics["priority_breakdown"] = {}
    /\ recent_activity_items = <<>>
    /\ recently_created_items = <<>>
    /\ recently_resolved_items = <<>>

\* C18 as stated: on an empty list calculate_item_metrics returns with every
\* count zero and the three lists empty; the metric keys are the ten
\* blocker/critical keys exactly when item_type is "bug", and the generic
\* keys for anything else
C18_EmptyList ==
    (cm_pc = "done" /\ all_items = <<>>) =>
        /\ AllZero
        /\ DOMAIN metrics = BugKeys <=> item_type = BugType
        /\ item_type # BugType => DOMAIN metrics = GenericKeys

(***************************************************************************)
(* C18, amended: on an empty list calculate_item_metrics returns with      *)
(* every count zero and the three lists empty; the metric keys are the ten *)
(* blocker/critical keys exactly when the lower-case form of item_type is  *)
(* "bug", and the generic keys otherwise.                                  *)
(***************************************************************************)
C18_EmptyListAnyCase ==
    (cm_pc = "done" /\ all_items = <<>>) =>
        /\ AllZero
        /\ DOMAIN metrics = BugKeys <=> IsBugType(item_type)
        /\ ~IsBugType(item_type) => DOMAIN metrics = GenericKeys

\* the empty list was processed for item_type "BUG"
C18_Witness ==
    /\ cm_pc = "done"
    /\ all_items = <<>>
    /\ item_type = <<"B", "U", "G">>
    /\ DOMAIN metrics = BugKeys
    /\ metrics["total_blocker_bugs"] = 0

ItemKeys ==
    {"key", "summary", "priority", "status", "created", "updated",
     "resolution_date"}
\* the item with every key it lacks set to the default the loop reads it with
WithDefaults(item) ==
    [k \in ItemKeys |->
        IF k \in DOMAIN item THEN item[k]
        ELSE IF k \in {"created", "updated", "resolution_date"} THEN StrValue(<<>>)
        ELSE IF k = "summary" THEN StrValue(NoSummary)
        ELSE StrValue(UnknownText)]

(***************************************************************************)
(* C19: whatever keys are missing from the records, calculate_item_metrics *)
(* goes through the list and returns; a missing priority is taken as       *)
(* 'Unknown' and a missing date as the empty string (not resolved, not     *)
(* recent), and the metrics and lists are those the same list gives when   *)
(* each record has its missing fields set to these defaults.               *)
(***************************************************************************)
C19_MissingKeysDefaulted ==
    InLoop =>
        /\ Accumulators =
             CalculateItemMetrics([i \in 1..Len(all_items) |-> WithDefaults(all_items[i])],
                                  item_idx, item_type, days, now, tz)
        /\ \A i \in 1..item_idx :
             /\ "priority" \notin DOMAIN all_items[i]
                  => recent_activity_items[i].priority = StrValue(UnknownText)
             /\ "resolution_date" \notin DOMAIN all_items[i]
                  => recent_activity_items[i].resolution_date = NotSet
        /\ (\A i \in 1..item_idx : "resolution_date" \notin DOMAIN all_items[i])
             => CountedResolved = 0 /\ recently_resolved_items = <<>>
        /\ (\A i \in 1..item_idx : "created" \notin DOMAIN all_items[i])
             => recently_created_items = <<>>

\* a record with no key at all was processed before a complete one, and the
\* call returned
C19_Witness ==
    /\ cm_pc = "done"
    /\ Len(all_items) = 2
    /\ all_items[1] = <<>>
    /\ all_items[2] = ItemFull
    /\ ~IsBugType(item_type)
    /\ metrics["total_items"] = 2
    /\ metrics["total_resolved_items"] = 1
    /\ recent_activity_items[1].priority = StrValue(UnknownText)

(***************************************************************************)
(* C20: when the argument of extract_json_from_result is an object with a  *)
(* .raw attribute, a dict .raw is returned, and for a string .raw the      *)
(* result is exactly what extraction from that string yields (fence        *)
(* stripping and brace scanning included), whatever the object's own       *)
(* str() form.                                                             *)
(***************************************************************************)
C20_RawGoverns ==
    /\ (pc = "done" /\ result_text.kind = "raw_dict") => ret = result_text.val
    /\ (pc = "done" /\ raw_ret.set /\ rounds = 0) => ret = raw_ret.val

(***************************************************************************)
(* Further properties of extract_json_from_result.                         *)
(***************************************************************************)

\* C21: for a string made of an opening fence line (``` or ```json), a
\* well-formed JSON document, a closing ``` line and possibly further text,
\* extract_json_from_result returns json.loads of the document; when the
\* fenced body is an object followed by prose, the brace scan is applied to
\* the body and ends after the object.
C21_FencedDocument ==
    (pc = "done" /\ result_text.kind = "str") =>
        \A f \in Fences, d \in FencedDocs, u \in FencedFollow :
            /\ result_text.text = f \o d \o FenceClose \o u
                  => ret = JsonLoads(d).val
            /\ (IsDict(JsonLoads(d).val)
                  /\ result_text.text = f \o d \o TailProse \o FenceClose \o u)
                  => /\ ret = JsonLoads(d).val
                     /\ end_idx = Len(d)
                     /\ result_str = d \o TailProse

\* a fenced array before a second fenced block was returned
C21_Witness ==
    /\ pc = "done"
    /\ result_text.kind = "str"
    /\ result_text.text = FenceJson \o DocArray \o FenceClose \o TailSecondFence
    /\ ret = JsonLoads(DocArray).val

\* x is not fenced and does not start with '{' once stripped
NoFenceNoBrace(x) ==
    /\ ~StartsWith(PyStrip(x), FenceMark)
    /\ ~StartsWith(PyStrip(x), <<"{">>)

\* the object that starts where the stripped x first holds {"issues": (or,
\* failing that, { "issues":, or {\n  "issues": spelled with a backslash):
\* its text up to the matching brace, parsed; None without such an object
IssuesObject(x) ==
    LET t     == PyStrip(x)
        start == IssuesStart(t)
        rest  == SubSeq(t, start, Len(t))
    IN  IF start = 0 \/ MatchingEnd(rest) = -1 THEN NoneVal
        ELSE IF JsonLoads(Prefix(rest, MatchingEnd(rest))).ok
        THEN JsonLoads(Prefix(rest, MatchingEnd(rest))).val
        ELSE NoneVal

\* C22: in every variant of the extractor, a string that is not valid JSON
\* as a whole, is not fenced and does not start with '{' after stripping
\* yields None.
C22_AllVariantsNone ==
    (pc = "done" /\ result_text.kind = "str"
        /\ ~JsonLoads(result_text.text).ok /\ NoFenceNoBrace(result_text.text)) =>
        /\ ret = NoneVal
        /\ calc_ret.set => calc_ret.val = NoneVal
        /\ blocker_ret.set => blocker_ret.val = NoneVal

\* C22, amended: a string whose stripped form is not valid JSON, is not
\* fenced and does not start with '{' yields None in
\* helper_func.extract_json_from_result and in
\* BugCalculator.extract_json_from_result; _extract_json_from_string yields
\* the object that starts at the first {"issues": marker of the string when
\* there is one that parses, and None otherwise.
C22_VariantsNone ==
    (pc = "done" /\ result_text.kind = "str"
        /\ ~JsonLoads(PyStrip(result_text.text)).ok
        /\ NoFenceNoBrace(result_text.text)) =>
        /\ ret = NoneVal
        /\ calc_ret.set => calc_ret.val = NoneVal
        /\ blocker_ret.set => blocker_ret.val = IssuesObject(result_text.text)

\* prose followed by an object without an "issues" key gave None in the
\* three variants
C22_Witness ==
    /\ pc = "done"
    /\ result_text.kind = "str"
    /\ result_text.text = LeadProse \o DocNested \o TailProse
    /\ calc_ret.set
    /\ blocker_ret.set
    /\ ret = NoneVal
    /\ calc_ret.val = NoneVal
    /\ blocker_ret.val = NoneVal

(***************************************************************************)
(* Further properties of is_timestamp_within_days.                         *)
(***************************************************************************)

\* v is a string fromisoformat reads as a time-zone-aware datetime
IsAwareIso(v) ==
    /\ v.type = "str"
    /\ LooksIso(PyStrip(v.s))
    /\ FromIsoFormat(ReplaceZ(PyStrip(v.s), 1)).ok
    /\ FromIsoFormat(ReplaceZ(PyStrip(v.s), 1)).aware

\* C23: for every instant, day count and local UTC offset,
\* is_timestamp_within_days gives the same result for the instant written as
\* an epoch string and written as a time-zone-aware ISO-8601 string (with Z
\* or an explicit offset).
C23_RepresentationIndependent ==
    (wd_pc = "done" /\ instant.known /\ within_epoch # "unset"
        /\ IsAwareIso(timestamp)) => within = within_epoch

(***************************************************************************)
(* Further properties of format_timestamp.                                 *)
(***************************************************************************)

\* C24: every value format_timestamp returns is a timestamp in the form
\* YYYY-MM-DD HH:MM:SS or one of the sentinels "Not Set", "Unknown Format",
\* "Invalid (<type>)"; no string argument comes back verbatim unless it is
\* in that form already.
C24_CanonicalOrSentinel ==
    ts_pc # "start" =>
        \/ IsCanonical(formatted)
        \/ formatted \in {NotSet, UnknownFormat, Invalid(timestamp)}

(***************************************************************************)
(* BugCalculator (src/helper_func.py) and                                  *)
(* BlockerBugCalculator.calculate_blocker_bug_fixes                        *)
(* (src/blocker_bug_calculator.py, whose is_bug_type, is_blocker_priority, *)
(* is_resolved and is_within_last_month have the text of BugCalculator's). *)
(*                                                                         *)
(* An issue is a function from the keys it holds to values, as an item is. *)
(***************************************************************************)

\* null
NullText ==
    <<"n", "u", "l", "l">>
\* N/A
NotAvailable ==
    <<"N", "/", "A">>

\* str(v)
StrOf(v) ==
    CASE v.type = "str"              -> v.s
      [] v.type \in {"int", "float"} -> PyStr(v)
      [] v.type = "list"             -> IF v.n = 0 THEN <<"[", "]">> ELSE <<"[", "1", "]">>
      [] OTHER                       -> NoneLiteral

\* is_target_priority(priority), where self.priority_ids is ids
IsTargetPriority(ids, priority) ==
    /\ Truthy(priority)
    /\ PyStrip(StrOf(priority)) \in ids

\* self.bug_type_ids
BugTypeIds == {<<"1">>}

\* is_bug_type(issue_type) of BugCalculator
IsBugTypeId(issue_type) ==
    /\ Truthy(issue_type)
    /\ PyStrip(StrOf(issue_type)) \in BugTypeIds

\* BugCalculator.is_resolved(resolution_date)
BugCalculatorIsResolved(v) ==
    /\ v.type # "NoneType"
    /\ PyStrip(StrOf(v)) # <<>>
    /\ Lower(PyStrip(StrOf(v))) # NullText

\* is_within_last_month with a window of 14 days
IsWithinLastFortnight(v, nw, offset) ==
    IF ~Truthy(v) THEN "False"
    ELSE IF v.type = "str" THEN
        LET tok == FirstToken(PyStrip(v.s))
            f   == PyFloat(tok)
        IN  IF tok = <<>> THEN "False"
            ELSE IF ~f.ok \/ f.huge THEN "False"
            ELSE IF f.n + offset >= (nw + offset) - 14 * 86400 THEN "True"
            ELSE "False"
    ELSE IF v.type \in {"int", "float"} THEN
        IF v.huge THEN "False"
        ELSE IF v.n + offset >= (nw + offset) - 14 * 86400 THEN "True"
        ELSE "False"
    ELSE "False"

\* is_within_last_month(timestamp) when datetime.now() is the instant nw and
\* the local zone is at offset: "True" or "False"; every exception (float of
\* a token that is no number, a value beyond the calendar) gives "False"
IsWithinLastMonth(v, nw, offset) ==
    IF ~Truthy(v) THEN "False"
    ELSE IF v.type = "str" THEN
        LET tok == FirstToken(PyStrip(v.s))
            f   == PyFloat(tok)
        IN  IF tok = <<>> THEN "False"
            ELSE IF ~f.ok \/ f.huge THEN "False"
            ELSE IF f.n + offset >= (nw + offset) - 30 * 86400 THEN "True"
            ELSE "False"
    ELSE IF v.type \in {"int", "float"} THEN
        IF v.huge THEN "False"
        ELSE IF v.n + offset >= (nw + offset) - 30 * 86400 THEN "True"
        ELSE "False"
    ELSE "False"

\* whether v[:100] can be taken: a str or a list can be sliced, None and a
\* number raise TypeError
Sliceable(v) == v.type \in {"str", "list"}

\* v[:n] for a str
Slice(v, n) ==
    IF v.type = "str" /\ Len(v.s) > n THEN StrValue(SubSeq(v.s, 1, n)) ELSE v

\* the dict appended to bugs_fixed (lines 605-609)
FixedEntry(issue) ==
    [key             |-> Get(issue, "key", StrValue(NotAvailable)),
     summary         |-> Slice(Get(issue, "summary", StrValue(NotAvailable)), 100),
     resolution_date |-> Get(issue, "resolution_date", StrValue(<<>>))]

\* the loop body of calculate_bug_metrics counting every bug, whatever its
\* priority
CountIssueAnyPriority(acc, issue, ids, nw, offset) ==
    LET issue_type      == Get(issue, "issue_type", StrValue(<<>>))
        resolution_date == Get(issue, "resolution_date", StrValue(<<>>))
        counted == IsBugTypeId(issue_type)
        res     == counted /\ BugCalculatorIsResolved(resolution_date)
        recent  == res /\ IsWithinLastMonth(resolution_date, nw, offset) = "True"
        raises  == recent /\ ~Sliceable(Get(issue, "summary", StrValue(NotAvailable)))
    IN  [metrics |->
            [total               |-> acc.metrics.total + (IF counted THEN 1 ELSE 0),
             total_resolved      |-> acc.metrics.total_resolved + (IF res THEN 1 ELSE 0),
             resolved_last_month |-> acc.metrics.resolved_last_month
                                       + (IF recent THEN 1 ELSE 0)],
         bugs_fixed |-> IF recent /\ ~raises
                        THEN Append(acc.bugs_fixed, FixedEntry(issue))
                        ELSE acc.bugs_fixed,
         raised |-> raises]

\* one iteration of the loop of lines 584-609 on issue: the new values of
\* metrics and bugs_fixed from their values acc, and whether the iteration
\* raised (the slice of a summary that is None, line 607, after the counter
\* of line 604 was incremented)
CountIssue(acc, issue, ids, nw, offset) ==
    LET issue_type      == Get(issue, "issue_type", StrValue(<<>>))
        priority        == Get(issue, "priority", StrValue(<<>>))
        resolution_date == Get(issue, "resolution_date", StrValue(<<>>))
        counted == IsBugTypeId(issue_type) /\ IsTargetPriority(ids, priority)
        res     == counted /\ BugCalculatorIsResolved(resolution_date)
        recent  == res /\ IsWithinLastMonth(resolution_date, nw, offset) = "True"
        raises  == recent /\ ~Sliceable(Get(issue, "summary", StrValue(NotAvailable)))
    IN  [metrics |->
            [total               |-> acc.metrics.total + (IF counted THEN 1 ELSE 0),
             total_resolved      |-> acc.metrics.total_resolved + (IF res THEN 1 ELSE 0),
             resolved_last_month |-> acc.metrics.resolved_last_month
                                       + (IF recent THEN 1 ELSE 0)],
         bugs_fixed |-> IF recent /\ ~raises
                        THEN Append(acc.bugs_fixed, FixedEntry(issue))
                        ELSE acc.bugs_fixed,
         raised |-> raises]

\* lines 575-582: the counters and the list before the loop.  The generic
\* metrics of the same records are computed first.
StartBugMetrics ==
    /\ bug_pc = "start"
    /\ cm_pc = "done"
    /\ bug_metrics' = [total |-> 0, total_resolved |-> 0, resolved_last_month |-> 0]
    /\ bugs_fixed' = <<>>
    /\ bug_pc' = "loop"
    /\ UNCHANGED <<json_vars, ts_vars, wd_vars, cm_vars, fix_vars, issues,
                   priority_ids, bug_idx>>

\* for issue in issues: one iteration
ProcessIssue ==
    /\ bug_pc = "loop"
    /\ bug_idx < Len(issues)
    /\ \E new \in {CountIssue([metrics |-> bug_metrics, bugs_fixed |-> bugs_fixed],
                               issues[bug_idx + 1], priority_ids, now, tz)} :
           /\ bug_metrics' = new.metrics
           /\ bugs_fixed' = new.bugs_fixed
           /\ bug_pc' = IF new.raised THEN "raised" ELSE "loop"
           /\ bug_idx' = IF new.raised THEN bug_idx ELSE bug_idx + 1
    /\ UNCHANGED <<json_vars, ts_vars, wd_vars, cm_vars, fix_vars, issues,
                   priority_ids>>

\* line 611: return metrics, bugs_fixed
ReturnBugMetrics ==
    /\ bug_pc = "loop"
    /\ bug_idx = Len(issues)
    /\ bug_pc' = "done"
    /\ UNCHANGED <<json_vars, ts_vars, wd_vars, cm_vars, fix_vars, issues,
                   priority_ids, bug_idx, bug_metrics, bugs_fixed>>

\* self.blocker_priority_ids
BlockerPriorityIds == {<<"1">>}

\* the dict appended to blocker_bugs_fixed (blocker_bug_calculator.py,
\* lines 383-391)
BlockerFixedEntry(issue) ==
    [key             |-> Get(issue, "key", StrValue(NotAvailable)),
     summary         |-> Slice(Get(issue, "summary", StrValue(NotAvailable)), 100),
     priority        |-> Get(issue, "priority", StrValue(<<>>)),
     status          |-> Get(issue, "status", StrValue(<<>>)),
     resolution      |-> Get(issue, "resolution", NoneValue),
     resolution_date |-> Get(issue, "resolution_date", StrValue(<<>>)),
     issue_type      |-> Get(issue, "issue_type", StrValue(<<>>))]

\* one iteration of the loop of calculate_blocker_bug_fixes (lines 330-391)
\* on issue; it raises at line 368, the slice of a summary that is None,
\* for every blocker bug, after the counters of lines 345-358
CountBlockerIssue(acc, issue, nw, offset) ==
    LET issue_type      == Get(issue, "issue_type", StrValue(<<>>))
        priority        == Get(issue, "priority", StrValue(<<>>))
        resolution_date == Get(issue, "resolution_date", StrValue(<<>>))
        is_bug      == IsBugTypeId(issue_type)
        is_blocker  == IsTargetPriority(BlockerPriorityIds, priority)
        is_resolved == BugCalculatorIsResolved(resolution_date)
        is_recent   == is_resolved
                         /\ IsWithinLastMonth(resolution_date, nw, offset) = "True"
        raises      == is_bug /\ is_blocker
                         /\ ~Sliceable(Get(issue, "summary", StrValue(NotAvailable)))
        fixed       == is_bug /\ is_blocker /\ is_recent /\ ~raises
    IN  [stats |->
            [total_issues  |-> acc.stats.total_issues,
             total_bugs    |-> acc.stats.total_bugs + (IF is_bug THEN 1 ELSE 0),
             blocker_priority_issues |->
                 acc.stats.blocker_priority_issues + (IF is_blocker THEN 1 ELSE 0),
             resolved_issues |->
                 acc.stats.resolved_issues + (IF is_resolved THEN 1 ELSE 0),
             recent_resolved |->
                 acc.stats.recent_resolved + (IF is_recent THEN 1 ELSE 0),
             blocker_bugs_fixed_last_month |->
                 acc.stats.blocker_bugs_fixed_last_month + (IF fixed THEN 1 ELSE 0)],
         blocker_bugs_fixed |-> IF fixed
                                THEN Append(acc.blocker_bugs_fixed, BlockerFixedEntry(issue))
                                ELSE acc.blocker_bugs_fixed,
         raised |-> raises]

\* lines 311-319: the list and the counters before the loop.  The call
\* follows that of calculate_bug_metrics on the same records.
StartBlockerFixes ==
    /\ fix_pc = "start"
    /\ bug_pc \in {"done", "raised"}
    /\ stats' = [total_issues |-> Len(issues), total_bugs |-> 0,
                 blocker_priority_issues |-> 0, resolved_issues |-> 0,
                 recent_resolved |-> 0, blocker_bugs_fixed_last_month |-> 0]
    /\ blocker_bugs_fixed' = <<>>
    /\ fix_pc' = "loop"
    /\ UNCHANGED <<json_vars, ts_vars, wd_vars, cm_vars, bug_vars, fix_idx>>

\* for issue in issues: one iteration
ProcessBlockerIssue ==
    /\ fix_pc = "loop"
    /\ fix_idx < Len(issues)
    /\ \E new \in {CountBlockerIssue([stats |-> stats,
                                      blocker_bugs_fixed |-> blocker_bugs_fixed],
                                     issues[fix_idx + 1], now, tz)} :
           /\ stats' = new.stats
           /\ blocker_bugs_fixed' = new.blocker_bugs_fixed
           /\ fix_pc' = IF new.raised THEN "raised" ELSE "loop"
           /\ fix_idx' = IF new.raised THEN fix_idx ELSE fix_idx + 1
    /\ UNCHANGED <<json_vars, ts_vars, wd_vars, cm_vars, bug_vars>>

\* line 393: return stats, blocker_bugs_fixed
ReturnBlockerFixes ==
    /\ fix_pc = "loop"
    /\ fix_idx = Len(issues)
    /\ fix_pc' = "done"
    /\ UNCHANGED <<json_vars, ts_vars, wd_vars, cm_vars, bug_vars, fix_idx, stats,
                   blocker_bugs_fixed>>

(***************************************************************************)
(* The arguments calculate_bug_metrics is applied to.                      *)
(***************************************************************************)

MaxIssues == 2

\* 1740700830: a day before the earlier of the two current instants
TsMarchEpoch ==
    <<"1", "7", "4", "0", "7", "0", "0", "8", "3", "0">>

\* 1751732716: twenty days before the later of the two current instants
TsTwentyDays ==
    <<"1", "7", "5", "1", "7", "3", "2", "7", "1", "6">>

Issue(key, issue_type, priority, resolution_date, summary) ==
    Field("key", StrValue(<<"K", key>>)) @@ Field("issue_type", issue_type)
        @@ Field("priority", priority) @@ Field("resolution_date", resolution_date)
        @@ Field("summary", summary)

Summary == StrValue(<<"a", "a">>)

\* blocker bugs told apart by their resolution_date
ResolutionDates ==
    <<StrValue(TsJira), StrValue(TsOldEpoch), StrValue(TsMarchEpoch),
      StrValue(TsIso), Value("int", <<>>, 1753460716, 0, FALSE),
      Value("int", <<>>, 0, 0, FALSE), NoneValue, Absent, StrValue(<<>>),
      StrValue(<<" ">>), StrValue(NullText), StrValue(UnknownText),
      StrValue(InvalidText)>>

Issues ==
    {Issue(LowerLetters[k], Blocker, Blocker, ResolutionDates[k], Summary) :
        k \in 1..Len(ResolutionDates)}
      \cup {Issue("n", Blocker, Critical, StrValue(TsJira), Summary),
            Issue("o", Critical, Blocker, StrValue(TsJira), Summary),
            Issue("p", Blocker, Blocker, StrValue(TsJira), NoneValue),
            Issue("q", Blocker, Blocker, StrValue(TsJira), Absent),
            Issue("r", Blocker, Blocker, StrValue(TsOldEpoch), NoneValue),
            Issue("s", NoneValue, NoneValue, NoneValue, NoneValue),
            Issue("t", Blocker, Blocker, StrValue(TsTwentyDays), Summary),
            <<>>}

IssueLists == UNION {[1..n -> Issues] : n \in 0..MaxIssues}

\* self.priority_ids of a Blocker and of a Critical calculator
PriorityIdSets == {{<<"1">>}, {<<"2">>}}

\* the window calculate_item_metrics is given beside is_within_last_month
MonthDays == 30

InitBug ==
    /\ issues \in IssueLists
    /\ priority_ids \in PriorityIdSets
    /\ now \in NowInstants
    /\ tz \in TzOffsets
    /\ bug_idx = 0
    /\ bug_metrics = <<>>
    /\ bugs_fixed = <<>>
    /\ bug_pc = "start"
    /\ fix_idx = 0
    /\ stats = <<>>
    /\ blocker_bugs_fixed = <<>>
    /\ fix_pc = "start"
    /\ all_items = issues
    /\ item_type = BugType
    /\ days = MonthDays
    /\ item_idx = 0
    /\ metrics = <<>>
    /\ recent_activity_items = <<>>
    /\ recently_created_items = <<>>
    /\ recently_resolved_items = <<>>
    /\ cm_pc = "start"
    /\ instant = [known |-> FALSE, t |-> 0]
    /\ within = "unset"
    /\ within_epoch = "unset"
    /\ wd_pc = "idle"
    /\ timestamp = NoneValue
    /\ ts_pc = "idle"
    /\ formatted = <<>>
    /\ reformatted = <<>>
    /\ token_only = <<>>
    /\ from_decimal = <<>>
    /\ JsonIdle

NextBug ==
    \/ StartMetrics
    \/ ProcessItem
    \/ ReturnMetrics
    \/ StartBugMetrics
    \/ ProcessIssue
    \/ ReturnBugMetrics
    \/ StartBlockerFixes
    \/ ProcessBlockerIssue
    \/ ReturnBlockerFixes

SpecBug == InitBug /\ [][NextBug]_vars

(***************************************************************************)
(* Properties of BugCalculator and of BlockerBugCalculator.                *)
(***************************************************************************)

\* the records the loop of calculate_bug_metrics has been through
Processed == {issues[k] : k \in 1..bug_idx}

\* every record is of issue type "1"
OnlyBugRecords ==
    \A k \in 1..Len(issues) :
        /\ "issue_type" \in DOMAIN issues[k]
        /\ issues[k]["issue_type"] = Blocker

\* C25: BugCalculator.is_resolved and the is_resolved test of
\* calculate_item_metrics give the same verdict on every resolution_date, and
\* on records of issue type "1" BugCalculator(["1"], "Blocker") reports the
\* total_blocker_bugs and total_blocker_bugs_resolved that
\* calculate_item_metrics(items, 30, "bug") reports.
C25_SameResolvedTest ==
    /\ \A issue \in Processed :
           "resolution_date" \in DOMAIN issue
               => (BugCalculatorIsResolved(issue["resolution_date"])
                      <=> IsResolved(issue["resolution_date"]))
    /\ (cm_pc = "done" /\ bug_pc = "done" /\ priority_ids = {<<"1">>} /\ OnlyBugRecords)
           => /\ bug_metrics.total = metrics["total_blocker_bugs"]
              /\ bug_metrics.total_resolved = metrics["total_blocker_bugs_resolved"]

\* v is an epoch number, or a string whose first token reads as a number
IsEpochForm(v) ==
    \/ v.type \in {"int", "float"}
    \/ v.type = "str" /\ ~LooksIso(PyStrip(v.s))
         /\ PyFloat(FirstToken(PyStrip(v.s))).ok

\* v is an ISO-8601 string
IsIsoString(v) ==
    /\ v.type = "str"
    /\ LooksIso(PyStrip(v.s))
    /\ FromIsoFormat(ReplaceZ(PyStrip(v.s), 1)).ok

\* the keys of the entries of bugs_fixed
FixedKeys == {bugs_fixed[i].key : i \in 1..Len(bugs_fixed)}

\* calculate_bug_metrics asks is_within_last_month about this record
AskedAboutWindow(issue) ==
    /\ IsBugTypeId(Get(issue, "issue_type", StrValue(<<>>)))
    /\ IsTargetPriority(priority_ids, Get(issue, "priority", StrValue(<<>>)))
    /\ BugCalculatorIsResolved(Get(issue, "resolution_date", StrValue(<<>>)))

\* C26: on every epoch number and epoch-form string is_within_last_month
\* gives what is_timestamp_within_days gives for 30 days, so a counted
\* resolved record is listed in bugs_fixed exactly when the generic check
\* accepts its resolution_date; on every ISO-8601 string is_within_last_month
\* gives False and the record is not listed, wherever the instant lies.
C26_DivergeOnlyOnIso ==
    \A issue \in Processed :
        LET rd == Get(issue, "resolution_date", StrValue(<<>>))
        IN  /\ IsEpochForm(rd)
                => /\ IsWithinLastMonth(rd, now, tz)
                        = IsTimestampWithinDays(rd, MonthDays, now, tz)
                   /\ (AskedAboutWindow(issue) /\ "key" \in DOMAIN issue)
                        => (issue["key"] \in FixedKeys
                              <=> IsTimestampWithinDays(rd, MonthDays, now, tz) = "True")
            /\ IsIsoString(rd)
                => /\ IsWithinLastMonth(rd, now, tz) = "False"
                   /\ (AskedAboutWindow(issue) /\ "key" \in DOMAIN issue)
                        => issue["key"] \notin FixedKeys

\* a counted record resolved twenty days ago is listed, and one with an ISO
\* resolution_date inside the window is not
C26_Witness ==
    /\ bug_pc = "done"
    /\ Len(issues) = 2
    /\ issues[1] = Issue("t", Blocker, Blocker, StrValue(TsTwentyDays), Summary)
    /\ issues[2] = Issue("d", Blocker, Blocker, StrValue(TsIso), Summary)
    /\ IsTimestampWithinDays(StrValue(TsIso), MonthDays, now, tz) = "True"
    /\ now = 1753460716
    /\ priority_ids = {<<"1">>}
    /\ Len(bugs_fixed) = 1
    /\ bugs_fixed[1].key = issues[1]["key"]
    /\ bug_metrics.total_resolved = 2

\* C27: calculate_bug_metrics and calculate_blocker_bug_fixes return normally
\* for every list of records, whichever fields are missing or null: no record
\* makes the loop raise.
C27_NeverAborts ==
    /\ bug_pc # "raised"
    /\ fix_pc # "raised"

\* the records among the first k that are of issue type "1" and of a target
\* priority
CountedAmong(k) ==
    {i \in 1..k :
        /\ IsBugTypeId(Get(issues[i], "issue_type", StrValue(<<>>)))
        /\ IsTargetPriority(priority_ids, Get(issues[i], "priority", StrValue(<<>>)))}

\* the positions of the records the entries of bugs_fixed were made from
\* increase
InInputOrder ==
    \E pos \in [1..Len(bugs_fixed) -> 1..bug_idx] :
        /\ \A i \in 1..Len(bugs_fixed) :
               /\ pos[i] \in CountedAmong(bug_idx)
               /\ bugs_fixed[i] = FixedEntry(issues[pos[i]])
        /\ \A i, j \in 1..Len(bugs_fixed) : i < j => pos[i] < pos[j]

\* C30: after calculate_bug_metrics has processed a prefix of the issue
\* list, total is the number of processed records that are both of issue
\* type "1" and of a target priority, resolved_last_month <= total_resolved
\* <= total <= the number of records processed, and bugs_fixed has exactly
\* resolved_last_month entries, made from counted records in input order.
C30_CountsAndOrder ==
    bug_pc \in {"loop", "done"}
        => /\ bug_metrics.total = Cardinality(CountedAmong(bug_idx))
           /\ bug_metrics.resolved_last_month <= bug_metrics.total_resolved
           /\ bug_metrics.total_resolved <= bug_metrics.total
           /\ bug_metrics.total <= bug_idx
           /\ Len(bugs_fixed) = bug_metrics.resolved_last_month
           /\ InInputOrder

\* two records processed: the first is no target-priority bug and is not
\* counted, the second is counted and listed
C30_Witness ==
    /\ bug_pc = "done"
    /\ bug_idx = 2
    /\ priority_ids = {<<"1">>}
    /\ issues[1] = Issue("n", Blocker, Critical, StrValue(TsJira), Summary)
    /\ bug_metrics.total = 1
    /\ bug_metrics.resolved_last_month = 1
    /\ Len(bugs_fixed) = 1
    /\ bugs_fixed[1].key = issues[2]["key"]

(***************************************************************************)
(* Properties of the brace scan.                                           *)
(***************************************************************************)

\* C28: the scan of extract_json_from_result (a quote opens a string when
\* in_string is not set and closes it when it is set) and the scan of
\* BugCalculator.extract_json_from_result and of _extract_json_from_string (a
\* quote toggles in_string when escape_next is not set) go through the same
\* brace_count, in_string and escape_next on every string and end with the
\* same end_idx.
C28_ScannersAgree ==
    /\ pc = "scan" =>
        LET t == ToggleScan(result_str, idx - 1)
        IN  /\ t.end_idx = -1
            /\ t.brace_count = brace_count
            /\ t.in_string = in_string
            /\ t.escape_next = escape_next
    /\ pc = "slice" =>
        LET t == ToggleScan(result_str, Len(result_str))
        IN  /\ t.end_idx = end_idx
            /\ t.brace_count = brace_count
            /\ t.in_string = in_string
            /\ t.escape_next = escape_next

\* both scans ended at the same '}' after a string that held an escaped
\* quote and was closed by a quote
C28_Witness ==
    /\ pc = "slice"
    /\ end_idx # -1
    /\ end_idx = ToggleScanEnd(result_str)
    /\ \E p \in 2..end_idx :
          /\ result_str[p] = "\""
          /\ result_str[p - 1] = "\\"
          /\ InsideString(result_str, p)
    /\ \E p \in 2..end_idx :
          /\ result_str[p] = "\""
          /\ InsideString(result_str, p - 1)
          /\ ~InsideString(result_str, p)

\* C29: throughout the brace scan of a string that starts with '{',
\* brace_count is at least 1 once the first character is read and never
\* negative, escape_next is set only while in_string is set, the scan stops
\* at the first character that brings brace_count to zero, end_idx is still
\* -1 at the end of the input exactly when brace_count never returned to
\* zero, and then None is returned.
C29_ScanInvariants ==
    /\ [](pc \in {"scan", "slice"} =>
            /\ result_str[1] = "{"
            /\ brace_count >= 0
            /\ (pc = "scan" /\ idx >= 2) => brace_count >= 1
            /\ escape_next => in_string
            /\ pc = "slice" =>
                /\ end_idx # -1 =>
                     /\ brace_count = 0
                     /\ end_idx = idx
                     /\ \A k \in 1..(end_idx - 1) : Depth(result_str, k) >= 1
                /\ end_idx = -1 <=>
                     \A k \in 1..Len(result_str) : Depth(result_str, k) >= 1)
    /\ [][(pc = "scan" /\ brace_count' = 0) => (pc' = "slice" /\ end_idx' = idx)]_vars
    /\ [][(pc = "slice" /\ end_idx = -1) => (pc' = "done" /\ ret' = NoneVal)]_vars

\* the input ended inside a nested object: the depth is 2 and end_idx is -1
C29_Witness ==
    /\ pc = "slice"
    /\ end_idx = -1
    /\ idx = Len(result_str) + 1
    /\ brace_count = 2
    /\ \E k \in 1..Len(result_str) : Depth(result_str, k) = 1 /\ k >= 2

====
